---- MODULE Spec2Model ----
(***************************************************************************)
(* Model of the retis event pipeline: the raw event decoder                *)
(* (parse_raw_event), the Event aggregate (insert_section) and its JSON    *)
(* form (to_json / from_json), the BPF events reader, the Collectors       *)
(* group, user probe parsing and the probe catalogue, the sort command     *)
(* and the tracking GC.                                                    *)
(*                                                                         *)
(* Byte offsets follow the source (0-based cursor); the byte at offset k   *)
(* of a buffer d is d[k + 1].  u16 fields are read little-endian, which is *)
(* what from_ne_bytes gives on the targets the BPF side runs on.           *)
(***************************************************************************)
EXTENDS Integers, Sequences, FiniteSets, TLC

\* ------------------------------------------------------------------ bounds

\* Longest buffer of arbitrary bytes given to parse_raw_event.
MaxRawLen == 7
\* Most records in a frame built record by record.
MaxRecords == 3
\* Most insert_section calls made on one Event.
MaxInserts == 3
\* Most top-level keys of a JSON line.
MaxKeys == 3
\* Most frames handed to process_event.
MaxFrames == 2
\* Most records handed to process_log.
MaxLogs == 2
\* Most next_event calls.
MaxCalls == 2
\* Most collectors listed on the command line.
MaxCollectors == 2
\* Most Collectors::start calls on one object.
MaxStarts == 2

\* The longest TARGET of a probe string, in characters.
MaxTargetLen == 3

\* The most probes the collectors register in one run.
MaxRegs == 3

\* The longest input file of sort, in events, the most tracking ids in it
\* and the largest --max-buffer.
MaxStream == 6
MaxTids == 3
MaxBuffer == 3

\* The last second the clock of the tracking GC gets to, and the last
\* second at which the kernel side inserts an entry.
MaxTime == 75
MaxInsertTime == 8

\* ------------------------------------------------- SectionId (events.rs)

SectionIds ==
    {"Common", "Kernel", "Userspace", "Tracking", "SkbTracking", "SkbDrop",
     "Skb", "Ovs", "Nft", "Ct", "Startup"}

\* SectionId::from_u8; "Error" stands for the Err(..) arm.
from_u8(val) ==
    CASE val = 1 -> "Common"
      [] val = 2 -> "Kernel"
      [] val = 3 -> "Userspace"
      [] val = 4 -> "Tracking"
      [] val = 5 -> "SkbTracking"
      [] val = 6 -> "SkbDrop"
      [] val = 7 -> "Skb"
      [] val = 8 -> "Ovs"
      [] val = 9 -> "Nft"
      [] val = 10 -> "Ct"
      [] val = 11 -> "Startup"
      [] OTHER -> "Error"

\* The enum discriminants (SectionId as u8).
to_u8(id) ==
    CASE id = "Common" -> 1
      [] id = "Kernel" -> 2
      [] id = "Userspace" -> 3
      [] id = "Tracking" -> 4
      [] id = "SkbTracking" -> 5
      [] id = "SkbDrop" -> 6
      [] id = "Skb" -> 7
      [] id = "Ovs" -> 8
      [] id = "Nft" -> 9
      [] id = "Ct" -> 10
      [] id = "Startup" -> 11
      [] OTHER -> 12

\* SectionId::to_str.
to_str(id) ==
    CASE id = "Common" -> "common"
      [] id = "Kernel" -> "kernel"
      [] id = "Userspace" -> "userspace"
      [] id = "Tracking" -> "tracking"
      [] id = "SkbTracking" -> "skb-tracking"
      [] id = "SkbDrop" -> "skb-drop"
      [] id = "Skb" -> "skb"
      [] id = "Ovs" -> "ovs"
      [] id = "Nft" -> "nft"
      [] id = "Ct" -> "ct"
      [] id = "Startup" -> "startup"
      [] OTHER -> "_max"

\* ------------------------------------------------------------- variables

VARIABLES
    data,            \* parse_raw_event: the buffer handed in
    pc,              \* parse_raw_event: position in the function
    raw_event_size,  \* parse_raw_event: L + 2 once the size checks passed
    cursor,          \* parse_raw_event: the loop cursor
    raw_sections,    \* parse_raw_event: owner -> vector of raw sections
    event,           \* parse_raw_event: the Event under construction
    result,          \* parse_raw_event: "none" | "ok" | "err"
    calls,           \* factory create() calls made, in call order
    inserts,         \* insert_section calls made on event, in call order
    line,            \* the JSON object of one line: key -> value
    parsed,          \* from_json: the Event returned
    jres,            \* from_json: "none" | "ok" | "err"
    jpc,             \* JSON path: "idle" | "start" | "line" | "done"
    running,         \* Running: the shared flag
    rxc,             \* BpfEventsFactory.rxc is Some
    txc,             \* the sender held by process_event is alive
    chan,            \* the events channel: Events sent and not received
    handle,          \* BpfEventsFactory.handle is Some
    log_handle,      \* BpfEventsFactory.log_handle is Some
    threads,         \* reader thread -> "none" | "loop" | "poll" | "exited"
    cpc,             \* the consumer: "idle" | "recv" | "join" | "join_log"
    timeout,         \* the timeout of the pending next_event call
    delivered,       \* process_event invocations, in order
    logged,          \* process_log invocations, in order
    received,        \* next_event results, in order
    rres,            \* results of start and stop: [start, stop]
    cstate,          \* Collectors: the object's fields
    clog,            \* Collectors: the calls made on its parts, in order
    probe,           \* parse_probe: the string handed in, as characters
    ktypes,          \* parse_probe: Collectors.known_kernel_types
    pres,            \* parse_probe: what it returned
    catalogue,       \* ProbeManager: (kind, target) -> hooks and options
    reglog,          \* ProbeManager: the probes registered, in order
    attached,        \* ProbeManager: attach() ran, and what it attached
    stream,          \* sort: the events of the input file, in order
    nread,           \* sort: how many of them next_event has returned
    max_buffer,      \* sort: the --max-buffer argument
    sorter,          \* sort: the series the EventSorter holds
    emitted,         \* sort: the series handed to the printers, in order
    spc,             \* sort: "idle" | "loop" | "done"
    now,             \* tracking GC: the monotonic clock, in seconds
    tmaps,           \* tracking GC: map name -> the values it holds
    fate,            \* tracking GC: map name -> what became of its entry
    gcnext,          \* tracking GC: the time of the next sweep
    cin,             \* CommonEventFactory::create: the raw sections handed in
    cout,            \* CommonEventFactory::create: what it returned
    fev,             \* Event::event_fmt: the event and the format
    fout,            \* Event::event_fmt: what was written, in order
    pin,             \* unmarshal_packet: the raw section and the SkbEvent handed in
    pout,            \* unmarshal_packet: the result and the SkbEvent after it
    sofs,            \* sort --out: the files, by canonical path
    sout,            \* sort --out: the steps taken and the result
    kfile,           \* KernelInspector: the lines of the symbols file
    ktab,            \* KernelInspector: the symbol tables built from it
    oin,             \* OvsCollector::can_run: the kernel configuration and modules
    oout,            \* OvsCollector::can_run: what it returned
    tin,             \* SkbEvent::event_fmt: the ip and tcp sub-sections
    tout             \* SkbEvent::event_fmt: the values computed

parseVars ==
    <<data, pc, raw_event_size, cursor, raw_sections, result, calls>>
jsonVars == <<line, parsed, jres, jpc>>

readerVars ==
    <<running, rxc, txc, chan, handle, log_handle, threads, cpc, timeout,
      delivered, logged, received, rres>>
collVars == <<cstate, clog>>
probeVars == <<probe, ktypes, pres>>
catVars == <<catalogue, reglog, attached>>
sortVars == <<stream, nread, max_buffer, sorter, emitted, spc>>
gcVars == <<now, tmaps, fate, gcnext>>
commonVars == <<cin, cout>>
fmtVars == <<fev, fout>>
pktVars == <<pin, pout>>
outVars == <<sofs, sout>>
symVars == <<kfile, ktab>>
ovsVars == <<oin, oout>>
tcpVars == <<tin, tout>>
lateVars == <<commonVars, fmtVars, pktVars, outVars, symVars, ovsVars, tcpVars>>
toolVars == <<probeVars, catVars, sortVars, gcVars, lateVars>>
otherVars == <<readerVars, collVars, toolVars>>

vars == <<parseVars, event, inserts, jsonVars, otherVars>>

\* A map with no key (HashMap::new(), Event::new()).
EmptyMap == <<>>

\* ------------------------------------------------ byte-level helpers

\* u16::from_ne_bytes of the two bytes at offset off.
U16At(d, off) == d[off + 1] + 256 * d[off + 2]

\* &d[from..to] as a sequence.
Slice(d, from, to) == SubSeq(d, from + 1, to)

\* mem::size_of::<BpfRawSectionHeader>() (packed: u8, u8, u16).
HeaderSize == 4

\* mem::size_of::<u16>(), the frame's size field.
SizeFieldLen == 2

\* FirstCursor starting the loop on the size field itself.
FirstCursor_Zero == SizeFieldLen - SizeFieldLen

\* The cursor the loop over the sections starts with (bpf.rs 316): the
\* size field was read.
FirstCursor == SizeFieldLen

\* --------------------------------------- the test factory (TestEvent)

DATA_TYPE_U64 == 1
DATA_TYPE_U128 == 2
U64Len == 8
U128Len == 16

\* One iteration of TestEvent::create's loop: st.ev is the section so far,
\* st.err is TRUE once a record was refused (the bail!() arms).
TestEventStep(st, raw) ==
    IF st.err THEN st
    ELSE IF raw.header.data_type = DATA_TYPE_U64
         THEN IF Len(raw.data) # U64Len THEN [st EXCEPT !.err = TRUE]
              ELSE [st EXCEPT !.ev.field0 = <<"Some", SubSeq(raw.data, 1, 8)>>]
    ELSE IF raw.header.data_type = DATA_TYPE_U128
         THEN IF Len(raw.data) # U128Len THEN [st EXCEPT !.err = TRUE]
              ELSE [st EXCEPT
                      !.ev.field1 = <<"Some", SubSeq(raw.data, 1, 8)>>,
                      !.ev.field2 = <<"Some", SubSeq(raw.data, 9, 16)>>]
    ELSE [st EXCEPT !.err = TRUE]

RECURSIVE TestEventFold(_, _, _)
TestEventFold(st, secs, i) ==
    IF i > Len(secs) THEN st
    ELSE TestEventFold(TestEventStep(st, secs[i]), secs, i + 1)

\* TestEvent::default().
TestEventDefault ==
    [field0 |-> <<"None">>, field1 |-> <<"None">>, field2 |-> <<"None">>]

\* TestEvent::create: [err, ev], ev being the section built from the record
\* vector when err is FALSE.
TestEventCreate(secs) ==
    TestEventFold([err |-> FALSE, ev |-> TestEventDefault], secs, 1)

\* The SectionFactories handed to parse_raw_event: the owners with a factory.
\* The map is the caller's; the unit test registers TestEvent for Common, and
\* a second owner is registered here so that two factories can run on one
\* frame.  Every other owner has no factory.
Factories == {"Common", "Kernel"}

\* ------------------------------------------------ parse_raw_event

\* SizeCheck with the size field left out of the comparison with the buffer
\* length.
SizeCheck_NoSizeField(d) ==
    IF Len(d) < SizeFieldLen THEN "too_small"
    ELSE IF U16At(d, 0) = 0 THEN "empty"
    ELSE IF U16At(d, 0) > Len(d) THEN "past_buffer"
    ELSE "ok"

\* The size checks at the head of parse_raw_event: "ok" or the bail!() taken.
SizeCheck(d) ==
    IF Len(d) < SizeFieldLen THEN "too_small"
    ELSE IF U16At(d, 0) = 0 THEN "empty"
    ELSE IF U16At(d, 0) + SizeFieldLen > Len(d) THEN "past_buffer"
    ELSE "ok"

\* PushSection keeping only the last raw section of an owner.
PushSection_Replace(rs, owner, sec) ==
    IF owner \in DOMAIN rs
    THEN [rs EXCEPT ![owner] = <<sec>>]
    ELSE (owner :> <<sec>>) @@ rs

\* raw_sections.entry(owner).or_insert(Vec::new()).push(sec)
PushSection(rs, owner, sec) ==
    IF owner \in DOMAIN rs
    THEN [rs EXCEPT ![owner] = Append(@, sec)]
    ELSE (owner :> <<sec>>) @@ rs

\* SectionPastEnd refusing a section that ends exactly at the frame end.
SectionPastEnd_Ge(raw_section_end, res) == raw_section_end >= res

\* The test taken before the break at bpf.rs 335.
SectionPastEnd(raw_section_end, res) == raw_section_end > res

\* AfterUnknownOwner without the skip of the payload.
AfterUnknownOwner_NoSkip(c1, header) == c1

\* The cursor after the record of an owner that is no SectionId (bpf.rs 345):
\* c1 is the cursor past the header.
AfterUnknownOwner(c1, header) == c1 + header.size

\* SectionEmpty never taken: an empty section is handled as any other.
SectionEmpty_Never(header) == FALSE

\* The test taken before the first continue (bpf.rs 332).
SectionEmpty(header) == header.size = 0

\* OnSectionPastEnd dropping the sections collected before the break.
OnSectionPastEnd_Drop(c1, rs) ==
    [cursor |-> c1, raw_sections |-> EmptyMap, brk |-> TRUE]

\* What the loop leaves when a section goes past the frame end (bpf.rs
\* 335-338): the sections collected so far, and a break.
OnSectionPastEnd(c1, rs) ==
    [cursor |-> c1, raw_sections |-> rs, brk |-> TRUE]

\* One iteration of the while loop, entered with cur < res.  brk is TRUE when
\* the iteration ends in a break.  A raw section borrows its bytes from the
\* buffer: off is where the borrowed slice starts, data the bytes it views.
LoopStep(d, res, cur, rs) ==
    IF Len(d) - cur < HeaderSize
    THEN [cursor |-> cur, raw_sections |-> rs, brk |-> TRUE]
    ELSE LET header == [owner |-> d[cur + 1], data_type |-> d[cur + 2],
                        size |-> U16At(d, cur + 2)]
             c1 == cur + HeaderSize
             raw_section_end == c1 + header.size
             owner == from_u8(header.owner)
         IN IF SectionEmpty(header)
            THEN [cursor |-> c1, raw_sections |-> rs, brk |-> FALSE]
            ELSE IF SectionPastEnd(raw_section_end, res)
            THEN OnSectionPastEnd(c1, rs)
            ELSE IF owner = "Error"
            THEN [cursor |-> AfterUnknownOwner(c1, header),
                  raw_sections |-> rs, brk |-> FALSE]
            ELSE [cursor |-> c1 + header.size,
                  raw_sections |->
                      PushSection(rs, owner,
                          [header |-> header, off |-> c1,
                           data |-> Slice(d, c1, raw_section_end)]),
                  brk |-> FALSE]

\* DispatchOne going on with a default section when create() fails.
DispatchOne_IgnoreError(owner, sections) ==
    IF owner \notin Factories THEN [ok |-> FALSE, err |-> "unknown_factory"]
    ELSE LET s == TestEventCreate(sections)
         IN [ok |-> TRUE, section |-> s.ev]

\* The closure given to try_for_each for one drained (owner, sections) pair:
\* the section to insert, or the error.
DispatchOne(owner, sections) ==
    IF owner \notin Factories THEN [ok |-> FALSE, err |-> "unknown_factory"]
    ELSE LET s == TestEventCreate(sections)
         IN IF s.err THEN [ok |-> FALSE, err |-> "create"]
            ELSE [ok |-> TRUE, section |-> s.ev]

\* insert_section storing the new section before it reports the duplicate.
insert_section_Overwrite(ev, owner, section) ==
    IF owner \in DOMAIN ev
    THEN [ok |-> FALSE, event |-> [ev EXCEPT ![owner] = section]]
    ELSE [ok |-> TRUE, event |-> (owner :> section) @@ ev]

\* Event::insert_section: the map after the call and whether it succeeded.
insert_section(ev, owner, section) ==
    IF owner \in DOMAIN ev
    THEN [ok |-> FALSE, event |-> ev]
    ELSE [ok |-> TRUE, event |-> (owner :> section) @@ ev]

\* The while loop from cursor cur on: the raw sections collected.
RECURSIVE CollectFrom(_, _, _, _)
CollectFrom(d, res, cur, rs) ==
    IF cur >= res THEN rs
    ELSE LET st == LoopStep(d, res, cur, rs)
         IN IF st.brk THEN st.raw_sections
            ELSE CollectFrom(d, res, st.cursor, st.raw_sections)

\* parse_raw_event as a function of its buffer: whether it returns Ok, and
\* the Event returned.  The order in which the HashMap is drained decides
\* only which error is reported, never whether there is one.
parse_raw_event(d) ==
    IF SizeCheck(d) # "ok" THEN [ok |-> FALSE, event |-> EmptyMap]
    ELSE LET rs == CollectFrom(d, U16At(d, 0) + SizeFieldLen, FirstCursor,
                               EmptyMap)
         IN IF \A o \in DOMAIN rs : DispatchOne(o, rs[o]).ok
            THEN [ok |-> TRUE,
                  event |-> [o \in DOMAIN rs |-> DispatchOne(o, rs[o]).section]]
            ELSE [ok |-> FALSE, event |-> EmptyMap]

\* ------------------------------------------------ inputs

\* Byte values of the arbitrary buffers: 1 is Common (has a factory), 5 is
\* SkbTracking (a SectionId without factory), 0 and 255 are no SectionId.
ByteVals == {0, 1, 5, 255}

RECURSIVE SeqsUpTo(_, _)
SeqsUpTo(S, n) ==
    IF n = 0 THEN {<<>>}
    ELSE LET shorter == SeqsUpTo(S, n - 1)
         IN shorter \cup {Append(s, x) : s \in {t \in shorter : Len(t) = n - 1},
                                            x \in S}

RawFrames == SeqsUpTo(ByteVals, MaxRawLen)

\* Records of the frames built record by record: the owner byte, the data
\* type, the size the header declares and the payload bytes that follow.
RecOwners == {1, 2, 12}
RecKinds ==
    { [data_type |-> 1, size |-> 8, len |-> 8],
      [data_type |-> 2, size |-> 16, len |-> 16],
      [data_type |-> 1, size |-> 0, len |-> 0],
      [data_type |-> 2, size |-> 8, len |-> 8],
      [data_type |-> 1, size |-> 24, len |-> 8] }
RecSpecs == [owner : RecOwners, kind : RecKinds]

\* The payload of the i-th record: its first byte tells the records apart.
Payload(i, n) == [k \in 1..n |-> IF k = 1 THEN 40 + i ELSE 0]

RecBytes(r, i) ==
    <<r.owner, r.kind.data_type, r.kind.size % 256, r.kind.size \div 256>>
        \o Payload(i, r.kind.len)

RECURSIVE RecsBytes(_, _)
RecsBytes(recs, i) ==
    IF i > Len(recs) THEN <<>>
    ELSE RecBytes(recs[i], i) \o RecsBytes(recs, i + 1)

\* The frame holding recs, its length field short of the payload by cut.
BuildFrame(recs, cut) ==
    LET body == RecsBytes(recs, 1)
        L == Len(body) - cut
    IN <<L % 256, L \div 256>> \o body

BuiltFrames ==
    {BuildFrame(recs, cut) : recs \in SeqsUpTo(RecSpecs, MaxRecords) \ {<<>>},
                             cut \in {0, 1}}

\* ------------------------------------------------ actions (parse)

\* No JSON line is being written or read.
JsonIdle ==
    /\ line = EmptyMap
    /\ parsed = EmptyMap
    /\ jres = "none"
    /\ jpc = "idle"

\* parse_raw_event is not running.
ParseIdle ==
    /\ data = <<>>
    /\ pc = "idle"
    /\ raw_event_size = 0
    /\ cursor = 0
    /\ raw_sections = EmptyMap
    /\ result = "none"
    /\ calls = <<>>

\* The reader threads; BpfEventsFactory::new (bpf.rs 112-119) leaves rxc and
\* both handles None, and Running::new() starts with the flag set.
ReaderThreads == {"events", "log"}

ReaderIdle ==
    /\ running = TRUE
    /\ rxc = FALSE
    /\ txc = FALSE
    /\ chan = <<>>
    /\ handle = FALSE
    /\ log_handle = FALSE
    /\ threads = [t \in ReaderThreads |-> "none"]
    /\ cpc = "idle"
    /\ timeout = "none"
    /\ delivered = <<>>
    /\ logged = <<>>
    /\ received = <<>>
    /\ rres = [start |-> "none", stop |-> "none"]

\* No Collectors object exists.
CollIdle ==
    /\ cstate = EmptyMap
    /\ clog = <<>>

\* parse_probe was not called.
ProbeNone == [done |-> FALSE, ok |-> FALSE, probes |-> {}, warned |-> {}]

ProbeIdle ==
    /\ probe = <<>>
    /\ ktypes = {}
    /\ pres = ProbeNone

\* ProbeManager::new: nothing registered, nothing attached.
CatIdle ==
    /\ catalogue = <<>>
    /\ reglog = <<>>
    /\ attached = [done |-> FALSE, keys |-> {}]

\* sort is not run.
SortIdle ==
    /\ stream = <<>>
    /\ nread = 0
    /\ max_buffer = 0
    /\ sorter = <<>>
    /\ emitted = <<>>
    /\ spc = "idle"

\* No tracking GC.
GcIdle ==
    /\ now = 0
    /\ tmaps = <<>>
    /\ fate = <<>>
    /\ gcnext = 0

\* The functions checked on their own were not called.
CommonIdle == cin = <<>> /\ cout = <<>>
FmtIdle == fev = <<>> /\ fout = <<>>
PktIdle == pin = <<>> /\ pout = <<>>
OutIdle == sofs = <<>> /\ sout = <<>>
SymIdle == kfile = <<>> /\ ktab = <<>>
OvsIdle == oin = <<>> /\ oout = <<>>
TcpIdle == tin = <<>> /\ tout = <<>>
LateIdle ==
    /\ CommonIdle
    /\ FmtIdle
    /\ PktIdle
    /\ OutIdle
    /\ SymIdle
    /\ OvsIdle
    /\ TcpIdle

\* Everything but the functions checked on their own is idle.
EarlyIdle ==
    /\ ParseIdle
    /\ JsonIdle
    /\ event = EmptyMap
    /\ inserts = <<>>
    /\ ReaderIdle
    /\ CollIdle
    /\ ProbeIdle
    /\ CatIdle
    /\ SortIdle
    /\ GcIdle
earlyVars ==
    <<parseVars, event, inserts, jsonVars, readerVars, collVars, probeVars,
      catVars, sortVars, gcVars>>

ToolIdle == ProbeIdle /\ CatIdle /\ SortIdle /\ GcIdle /\ LateIdle

OtherIdle == ReaderIdle /\ CollIdle /\ ToolIdle

InitParse ==
    /\ data \in RawFrames \cup BuiltFrames
    /\ pc = "start"
    /\ raw_event_size = 0
    /\ cursor = 0
    /\ raw_sections = EmptyMap
    /\ event = EmptyMap
    /\ result = "none"
    /\ calls = <<>>
    /\ inserts = <<>>
    /\ JsonIdle
    /\ OtherIdle

\* bpf.rs 291-317: the size checks, then cursor = 2.
ParseStart ==
    /\ pc = "start"
    /\ IF SizeCheck(data) = "ok"
       THEN /\ raw_event_size' = U16At(data, 0) + SizeFieldLen
            /\ cursor' = FirstCursor
            /\ pc' = "loop"
            /\ result' = result
       ELSE /\ pc' = "done"
            /\ result' = "err"
            /\ UNCHANGED <<raw_event_size, cursor>>
    /\ UNCHANGED <<inserts, jsonVars, otherVars>>
    /\ UNCHANGED <<data, raw_sections, event, calls>>

\* bpf.rs 318-360: one iteration of the while loop.
ParseSection ==
    /\ pc = "loop"
    /\ cursor < raw_event_size
    /\ LET st == LoopStep(data, raw_event_size, cursor, raw_sections)
       IN /\ cursor' = st.cursor
          /\ raw_sections' = st.raw_sections
          /\ pc' = IF st.brk THEN "dispatch" ELSE "loop"
    /\ UNCHANGED <<inserts, jsonVars, otherVars>>
    /\ UNCHANGED <<data, raw_event_size, event, result, calls>>

\* bpf.rs 318: the while condition fails.
ParseLoopEnd ==
    /\ pc = "loop"
    /\ cursor >= raw_event_size
    /\ pc' = "dispatch"
    /\ UNCHANGED <<inserts, jsonVars, otherVars>>
    /\ UNCHANGED <<data, raw_event_size, cursor, raw_sections, event, result,
                   calls>>

\* bpf.rs 363-373: the closure run on one drained entry, in HashMap order.
Dispatch ==
    /\ pc = "dispatch"
    /\ \E owner \in DOMAIN raw_sections \ DOMAIN event :
          LET r == DispatchOne(owner, raw_sections[owner])
          IN IF ~r.ok
             THEN /\ calls' = IF r.err = "create"
                              THEN Append(calls, [owner |-> owner,
                                       sections |-> raw_sections[owner]])
                              ELSE calls
                  /\ event' = EmptyMap
                  /\ result' = "err"
                  /\ pc' = "done"
             ELSE LET ins == insert_section(event, owner, r.section)
                  IN /\ calls' = Append(calls, [owner |-> owner,
                                     sections |-> raw_sections[owner]])
                     /\ event' = IF ins.ok THEN ins.event ELSE EmptyMap
                     /\ result' = IF ins.ok THEN result ELSE "err"
                     /\ pc' = IF ins.ok THEN pc ELSE "done"
    /\ UNCHANGED <<inserts, jsonVars, otherVars>>
    /\ UNCHANGED <<data, raw_event_size, cursor, raw_sections>>

\* bpf.rs 375: every entry was drained, Ok(event).
ParseOk ==
    /\ pc = "dispatch"
    /\ DOMAIN raw_sections \ DOMAIN event = {}
    /\ result' = "ok"
    /\ pc' = "done"
    /\ UNCHANGED <<inserts, jsonVars, otherVars>>
    /\ UNCHANGED <<data, raw_event_size, cursor, raw_sections, event, calls>>

NextParse ==
    \/ ParseStart
    \/ ParseSection
    \/ ParseLoopEnd
    \/ Dispatch
    \/ ParseOk

SpecParse == InitParse /\ [][NextParse]_vars

\* ------------------------------------------------ Event::insert_section

\* The sections handed to insert_section: two CommonEvent values.
InsertedSections == {[ty |-> "CommonEvent", v |-> n] : n \in 1..2}

InitEvent ==
    /\ ParseIdle
    /\ OtherIdle
    /\ JsonIdle
    /\ event = EmptyMap
    /\ inserts = <<>>

\* events.rs 77-88: one insert_section call on the Event.
InsertSection ==
    /\ Len(inserts) < MaxInserts
    /\ \E owner \in SectionIds, section \in InsertedSections :
          LET r == insert_section(event, owner, section)
          IN /\ event' = r.event
             /\ inserts' = Append(inserts,
                    [owner |-> owner, section |-> section, ok |-> r.ok])
    /\ UNCHANGED <<parseVars, jsonVars, otherVars>>

NextEvent == InsertSection

SpecEvent == InitEvent /\ [][NextEvent]_vars

\* ------------------------------------------------ the JSON form

\* The section types event_sections() registers (events.rs 261-270).
RegisteredTypes ==
    {"CommonEvent", "KernelEvent", "UserEvent", "SkbTrackingEvent",
     "SkbDropEvent", "SkbEvent", "OvsEvent", "NftEvent", "CtEvent",
     "StartupEvent"}

\* The type of the section stored under Tracking.
TrackingType == "TrackingInfo"

\* <$ty>::SECTION_ID: every section type has the id of one SectionId.
SECTION_ID(ty) ==
    CASE ty = "CommonEvent" -> 1
      [] ty = "KernelEvent" -> 2
      [] ty = "UserEvent" -> 3
      [] ty = "TrackingInfo" -> 4
      [] ty = "SkbTrackingEvent" -> 5
      [] ty = "SkbDropEvent" -> 6
      [] ty = "SkbEvent" -> 7
      [] ty = "OvsEvent" -> 8
      [] ty = "NftEvent" -> 9
      [] ty = "CtEvent" -> 10
      [] ty = "StartupEvent" -> 11
      [] OTHER -> 12

\* The type of the section an Event holds under id.
TypeOf(id) ==
    CHOOSE ty \in RegisteredTypes \cup {TrackingType} :
        from_u8(SECTION_ID(ty)) = id

\* The key insert_section! gives a type (events.rs 251).
SectionKey(ty) == to_str(from_u8(SECTION_ID(ty)))

\* event_sections(): section name -> the type whose parser is stored.
event_sections ==
    [name \in {SectionKey(ty) : ty \in RegisteredTypes} |->
        CHOOSE ty \in RegisteredTypes : SectionKey(ty) = name]

\* EventSectionInternal::to_json of a section: a JSON value of the shape of
\* its type.
SectionToJson(section) == [shape |-> section.ty, v |-> section.v]

\* The parser insert_section! stores for ty (events.rs 252):
\* serde_json::from_value::<ty>(value).
ParseSectionValue(ty, value) ==
    IF value.shape = ty
    THEN [ok |-> TRUE, section |-> [ty |-> ty, v |-> value.v]]
    ELSE [ok |-> FALSE, section |-> [ty |-> ty, v |-> 0]]

\* The owner whose name is key, among the keys of ev.
OwnerNamed(ev, key) == CHOOSE o \in DOMAIN ev : to_str(o) = key

\* Event::to_json (events.rs 109-118).
to_json(ev) ==
    [key \in {to_str(o) : o \in DOMAIN ev} |->
        SectionToJson(ev[OwnerNamed(ev, key)])]

\* FromJsonKey taking a key without parser for one to leave out.
FromJsonKey_SkipUnknown(st, key, value) ==
    IF st.err THEN st
    ELSE IF key \notin DOMAIN event_sections THEN st
    ELSE LET r == ParseSectionValue(event_sections[key], value)
             id == from_u8(SECTION_ID(r.section.ty))
         IN IF ~r.ok \/ id = "Error" THEN [st EXCEPT !.err = TRUE]
            ELSE LET ins == insert_section(st.event, id, r.section)
                 IN IF ins.ok THEN [st EXCEPT !.event = ins.event]
                    ELSE [st EXCEPT !.err = TRUE]

\* One iteration of from_json's loop (events.rs 62-72) on the entry
\* (key, value): st.err is TRUE once a `?` has returned.
FromJsonKey(st, key, value) ==
    IF st.err THEN st
    ELSE IF key \notin DOMAIN event_sections THEN [st EXCEPT !.err = TRUE]
    ELSE LET r == ParseSectionValue(event_sections[key], value)
             id == from_u8(SECTION_ID(r.section.ty))
         IN IF ~r.ok \/ id = "Error" THEN [st EXCEPT !.err = TRUE]
            ELSE LET ins == insert_section(st.event, id, r.section)
                 IN IF ins.ok THEN [st EXCEPT !.event = ins.event]
                    ELSE [st EXCEPT !.err = TRUE]

RECURSIVE FromJsonFold(_, _, _, _)
FromJsonFold(st, js, order, i) ==
    IF i > Len(order) THEN st
    ELSE FromJsonFold(FromJsonKey(st, order[i], js[order[i]]), js, order,
                      i + 1)

\* Event::from_json on the object js, its HashMap drained in the given
\* order: [err, event].
from_json(js, order) ==
    FromJsonFold([err |-> FALSE, event |-> EmptyMap], js, order, 1)

\* The orders in which a HashMap with key set S can be drained.
RECURSIVE Orders(_)
Orders(S) ==
    IF S = {} THEN {<<>>}
    ELSE UNION {{<<k>> \o rest : rest \in Orders(S \ {k})} : k \in S}

\* ------------------------------------------------ inputs (JSON)

SectionPayloads == 1..2

\* The Events of at most MaxKeys sections, each section of its id's type.
RECURSIVE SubsetsUpTo(_, _)
SubsetsUpTo(S, n) ==
    IF n = 0 THEN {{}}
    ELSE LET smaller == SubsetsUpTo(S, n - 1)
         IN smaller \cup {T \cup {x} : T \in smaller, x \in S}

Events ==
    UNION {[ids -> SectionPayloads] : ids \in SubsetsUpTo(SectionIds, MaxKeys)}

EventOf(f) == [id \in DOMAIN f |-> [ty |-> TypeOf(id), v |-> f[id]]]

\* The keys of the lines read from a file: names of sections, and names
\* that are none.
LineKeys == {"common", "skb", "ct", "tracking", "md_common"}

\* The value under a key: of the shape of one of three types.
LineShapes == {"CommonEvent", "SkbEvent", "CtEvent"}

Lines ==
    UNION {[keys -> [shape : LineShapes, v : {1}]] :
              keys \in SubsetsUpTo(LineKeys, MaxKeys)}

\* ------------------------------------------------ actions (JSON)

InitJson ==
    /\ ParseIdle
    /\ OtherIdle
    /\ inserts = <<>>
    /\ \E f \in Events : event = EventOf(f)
    /\ line = EmptyMap
    /\ parsed = EmptyMap
    /\ jres = "none"
    /\ jpc = "start"

\* events.rs 109-118: the Event is written as a JSON object.
ToJson ==
    /\ jpc = "start"
    /\ line' = to_json(event)
    /\ jpc' = "line"
    /\ UNCHANGED <<otherVars, parseVars, event, inserts, parsed, jres>>

\* A line comes from a file instead.
ReadLine ==
    /\ jpc = "start"
    /\ DOMAIN event = {}
    /\ line' \in Lines
    /\ jpc' = "line"
    /\ UNCHANGED <<otherVars, parseVars, event, inserts, parsed, jres>>

\* events.rs 56-74: from_json on the line.
FromJson ==
    /\ jpc = "line"
    /\ \E order \in Orders(DOMAIN line) :
          LET r == from_json(line, order)
          IN /\ jres' = IF r.err THEN "err" ELSE "ok"
             /\ parsed' = IF r.err THEN EmptyMap ELSE r.event
    /\ jpc' = "done"
    /\ UNCHANGED <<otherVars, parseVars, event, inserts, line>>

NextJson ==
    \/ ToJson
    \/ ReadLine
    \/ FromJson

SpecJson == InitJson /\ [][NextJson]_vars

\* ------------------------------------------------ BpfEventsFactory

\* EINTR as the callbacks return it (bpf.rs 185, 217).
EINTR == 4

\* mem::size_of::<LogEvent>(): the level byte and BPF_LOG_MAX message bytes.
BPF_LOG_MAX == 127
LogEventSize == 1 + BPF_LOG_MAX

\* Frames the kernel delivers on the events ring buffer: two frames that
\* decode (told apart by their sections), a truncated frame, a frame whose
\* section the factory refuses, a frame of a known owner without factory and
\* a frame whose only record runs past the end.
GoodRec == [data_type |-> DATA_TYPE_U64, size |-> U64Len, len |-> U64Len]
WideRec == [data_type |-> DATA_TYPE_U128, size |-> U128Len, len |-> U128Len]
FrameA == BuildFrame(<<[owner |-> to_u8("Common"), kind |-> GoodRec]>>, 0)
FrameB ==
    BuildFrame(<<[owner |-> to_u8("Common"), kind |-> GoodRec],
                 [owner |-> to_u8("Kernel"), kind |-> WideRec]>>, 0)
FrameTruncated == SubSeq(FrameA, 1, Len(FrameA) - 1)
FrameBadSection ==
    BuildFrame(<<[owner |-> to_u8("Common"),
                  kind |-> [data_type |-> DATA_TYPE_U128, size |-> U64Len,
                            len |-> U64Len]]>>, 0)
FrameNoFactory ==
    BuildFrame(<<[owner |-> to_u8("Skb"), kind |-> GoodRec]>>, 0)
FrameOversize ==
    BuildFrame(<<[owner |-> to_u8("Common"),
                  kind |-> [data_type |-> DATA_TYPE_U64, size |-> U128Len,
                            len |-> U64Len]]>>, 0)
DeliveredFrames ==
    {FrameA, FrameB, FrameTruncated, FrameBadSection, FrameNoFactory,
     FrameOversize}

\* Records the kernel delivers on the log ring buffer: their length, the
\* level byte and whether the message bytes are a string.
LogRecords ==
    { [len |-> LogEventSize, level |-> 3, msg |-> "text"],
      [len |-> LogEventSize, level |-> 9, msg |-> "text"],
      [len |-> LogEventSize, level |-> 4, msg |-> "invalid"],
      [len |-> LogEventSize - 1, level |-> 3, msg |-> "text"] }

\* A line written through the log crate.
LogLine(level, msg) == [level |-> level, msg |-> msg]

\* process_event ending the delivery when the frame does not decode.
process_event_StopOnError(run, rx, d) ==
    IF ~run
    THEN [ret |-> -EINTR, parsed |-> FALSE, sent |-> FALSE,
          event |-> EmptyMap, log |-> <<>>]
    ELSE LET r == parse_raw_event(d)
         IN IF ~r.ok
            THEN [ret |-> -1, parsed |-> TRUE, sent |-> FALSE,
                  event |-> EmptyMap,
                  log |-> <<LogLine("Error", "Could not parse raw event")>>]
            ELSE [ret |-> 0, parsed |-> TRUE, sent |-> rx, event |-> r.event,
                  log |-> IF rx THEN <<>>
                          ELSE <<LogLine("Error", "Could not send event")>>]

\* bpf.rs 178-202: the events callback.  run is what run_state.running()
\* returns, rx whether the receiving end of the channel exists.
process_event(run, rx, d) ==
    IF ~run
    THEN [ret |-> -EINTR, parsed |-> FALSE, sent |-> FALSE,
          event |-> EmptyMap, log |-> <<>>]
    ELSE LET r == parse_raw_event(d)
         IN IF ~r.ok
            THEN [ret |-> 0, parsed |-> TRUE, sent |-> FALSE,
                  event |-> EmptyMap,
                  log |-> <<LogLine("Error", "Could not parse raw event")>>]
            ELSE [ret |-> 0, parsed |-> TRUE, sent |-> rx, event |-> r.event,
                  log |-> IF rx THEN <<>>
                          ELSE <<LogLine("Error", "Could not send event")>>]

\* bpf.rs 226-236: the level byte of a log event as a log::Level.
LogLevel(l) ==
    CASE l = 1 -> "Error"
      [] l = 2 -> "Warn"
      [] l = 3 -> "Info"
      [] l = 4 -> "Debug"
      [] l = 5 -> "Trace"
      [] OTHER -> "Error"

\* bpf.rs 206-244: the log callback.
process_log(run, rec) ==
    IF rec.len # LogEventSize
    THEN [ret |-> 0, parsed |-> FALSE,
          log |-> <<LogLine("Error", "Unexpected log event size")>>]
    ELSE IF ~run
    THEN [ret |-> -EINTR, parsed |-> FALSE, log |-> <<>>]
    ELSE [ret |-> 0, parsed |-> TRUE,
          log |-> (IF rec.level \in 1..5 THEN <<>>
                   ELSE <<LogLine("Error", "Unexpected log level")>>)
                  \o (IF rec.msg = "text"
                      THEN <<LogLine(LogLevel(rec.level), "[eBPF] msg")>>
                      ELSE <<LogLine("Error",
                                     "Unable to convert eBPF log string")>>)]

\* ChanSend putting the event ahead of those already sent.
ChanSend_Front(ch, ev) == <<ev>> \o ch

\* bpf.rs 197: txc.send(event) queues the event behind those already sent.
ChanSend(ch, ev) == Append(ch, ev)

\* AfterLoopCheck never reading the flag.
AfterLoopCheck_KeepPolling(run) == "poll"

\* bpf.rs 146: the poll loop goes on while the flag is set.
AfterLoopCheck(run) == IF run THEN "poll" ELSE "exited"

\* bpf.rs 147-157: a poll the callback ended with a negative value returns
\* that error (EINTR: not reported) and the loop condition is read again;
\* otherwise the poll goes on with the next record.
AfterCallback(ret) == IF ret < 0 THEN "loop" ELSE "poll"

\* bpf.rs 277-282: what the receiving end yields: the oldest event; an error
\* once the channel is empty and the sender is gone; Timeout when the
\* channel stayed empty for the whole timeout; nothing (the call blocks) when
\* no timeout was given.
RecvOutcomes(ch, tx, to) ==
    IF ch # <<>> THEN {"event"}
    ELSE IF ~tx THEN {"disconnected"}
    ELSE IF to = "some" THEN {"timeout"}
    ELSE {}

\* bpf.rs 276-283: the result of next_event for what the channel yielded.
NextEventResult(outcome) ==
    CASE outcome = "event" -> "Event"
      [] outcome = "timeout" -> "Timeout"
      [] OTHER -> "Err"

InitReader ==
    /\ ParseIdle
    /\ JsonIdle
    /\ event = EmptyMap
    /\ inserts = <<>>
    /\ OtherIdle

readerRest == <<parseVars, event, inserts, jsonVars, collVars, toolVars>>

\* bpf.rs 167-252: BpfEventsFactory::start.  The map of factories is empty
\* or the registered one; building a ring buffer may fail (132-142), and the
\* callback handed to it is dropped with it.
StartWith(factories, fails) ==
    /\ IF factories = {}
       THEN /\ rres' = [rres EXCEPT !.start = "err"]
            /\ UNCHANGED <<rxc, txc, handle, log_handle, threads>>
       ELSE /\ rxc' = TRUE
            /\ txc' = (fails # "events")
            /\ handle' = (fails # "events")
            /\ log_handle' = (fails = "none")
            /\ threads' =
                  [t \in ReaderThreads |->
                     IF fails = "events" \/ (t = "log" /\ fails = "log")
                     THEN "none" ELSE "loop"]
            /\ rres' = [rres EXCEPT
                          !.start = IF fails = "none" THEN "ok" ELSE "err"]
    /\ UNCHANGED <<running, chan, cpc, timeout, delivered, logged, received>>

\* What building the two ring buffers may end in.
RingbufFailures == {"none", "events", "log"}

Start ==
    /\ rres.start = "none"
    /\ cpc = "idle"
    /\ \E factories \in {{}, Factories}, fails \in RingbufFailures :
          StartWith(factories, fails)
    /\ UNCHANGED readerRest

\* bpf.rs 146: a reader thread reads the flag at the top of its loop; when
\* it leaves the loop the ring buffer and its callback are dropped, and with
\* process_event the sender.
LoopCheck(t) ==
    /\ threads[t] = "loop"
    /\ threads' = [threads EXCEPT ![t] = AfterLoopCheck(running)]
    /\ txc' = IF t = "events" /\ AfterLoopCheck(running) = "exited"
              THEN FALSE ELSE txc
    /\ UNCHANGED <<running, rxc, chan, handle, log_handle, cpc, timeout,
                   delivered, logged, received, rres>>
    /\ UNCHANGED readerRest

\* bpf.rs 146-147: the poll returns (timeout, or no more records) and the
\* thread reads the flag at the top of its loop.
PollReturn(t) ==
    /\ threads[t] = "poll"
    /\ threads' = [threads EXCEPT ![t] = AfterLoopCheck(running)]
    /\ txc' = IF t = "events" /\ AfterLoopCheck(running) = "exited"
              THEN FALSE ELSE txc
    /\ UNCHANGED <<running, rxc, chan, handle, log_handle, cpc, timeout,
                   delivered, logged, received, rres>>
    /\ UNCHANGED readerRest

\* bpf.rs 178-202: the poll of the events thread hands a frame to
\* process_event.
EventsCallback ==
    /\ threads["events"] = "poll"
    /\ Len(delivered) < MaxFrames
    /\ \E d \in DeliveredFrames :
          LET r == process_event(running, rxc, d)
          IN /\ delivered' = Append(delivered,
                    [frame |-> d, running |-> running, ret |-> r.ret,
                     parsed |-> r.parsed, sent |-> r.sent, log |-> r.log])
             /\ chan' = IF r.sent THEN ChanSend(chan, r.event) ELSE chan
             /\ threads' = [threads EXCEPT !["events"] = AfterCallback(r.ret)]
    /\ UNCHANGED <<running, rxc, txc, handle, log_handle, cpc, timeout,
                   logged, received, rres>>
    /\ UNCHANGED readerRest

\* bpf.rs 206-244: the poll of the log thread hands a record to process_log.
LogCallback ==
    /\ threads["log"] = "poll"
    /\ Len(logged) < MaxLogs
    /\ \E rec \in LogRecords :
          LET r == process_log(running, rec)
          IN /\ logged' = Append(logged,
                    [rec |-> rec, running |-> running, ret |-> r.ret,
                     parsed |-> r.parsed, log |-> r.log])
             /\ threads' = [threads EXCEPT !["log"] = AfterCallback(r.ret)]
    /\ UNCHANGED <<running, rxc, txc, chan, handle, log_handle, cpc, timeout,
                   delivered, received, rres>>
    /\ UNCHANGED readerRest

\* A termination signal clears the flag.
Terminate ==
    /\ running
    /\ running' = FALSE
    /\ UNCHANGED <<rxc, txc, chan, handle, log_handle, threads, cpc, timeout,
                   delivered, logged, received, rres>>
    /\ UNCHANGED readerRest

\* bpf.rs 270-274: next_event is called; without a receive channel it fails
\* at once, otherwise it waits on the channel.
NextEventCall ==
    /\ cpc = "idle"
    /\ Len(received) < MaxCalls
    /\ \E to \in {"none", "some"} :
          IF ~rxc
          THEN /\ received' = Append(received,
                    [timeout |-> to, rx |-> FALSE, result |-> "Err",
                     event |-> EmptyMap, outcome |-> "none"])
               /\ UNCHANGED <<cpc, timeout>>
          ELSE /\ cpc' = "recv"
               /\ timeout' = to
               /\ UNCHANGED received
    /\ UNCHANGED <<running, rxc, txc, chan, handle, log_handle, threads,
                   delivered, logged, rres>>
    /\ UNCHANGED readerRest

\* bpf.rs 276-283: the channel yields and next_event returns.
NextEventReturn ==
    /\ cpc = "recv"
    /\ \E outcome \in RecvOutcomes(chan, txc, timeout) :
          /\ received' = Append(received,
                [timeout |-> timeout, rx |-> TRUE,
                 result |-> NextEventResult(outcome),
                 event |-> IF outcome = "event" THEN Head(chan) ELSE EmptyMap,
                 outcome |-> outcome])
          /\ chan' = IF outcome = "event" THEN Tail(chan) ELSE chan
    /\ cpc' = "idle"
    /\ timeout' = "none"
    /\ UNCHANGED <<running, rxc, txc, handle, log_handle, threads,
                   delivered, logged, rres>>
    /\ UNCHANGED readerRest

\* bpf.rs 263-266: the second half of stop, from log_handle.take().
StopLogPart(lh) == IF lh THEN "join_log" ELSE "idle"

\* bpf.rs 257-258: stop takes the events handle; when there is one the
\* flag is cleared and the thread joined, otherwise stop goes on to the log
\* handle.
Stop ==
    /\ cpc = "idle"
    /\ rres.stop = "none"
    /\ IF handle
       THEN /\ running' = FALSE
            /\ handle' = FALSE
            /\ cpc' = "join"
            /\ UNCHANGED <<log_handle, rres>>
       ELSE /\ cpc' = StopLogPart(log_handle)
            /\ log_handle' = FALSE
            /\ rres' = [rres EXCEPT
                  !.stop = IF StopLogPart(log_handle) = "idle" THEN "ok"
                           ELSE @]
            /\ UNCHANGED <<running, handle>>
    /\ UNCHANGED <<rxc, txc, chan, threads, timeout, delivered, logged,
                   received>>
    /\ UNCHANGED readerRest

\* bpf.rs 259-263: the events thread has ended and is joined; stop goes on
\* to the log handle.
StopJoin ==
    /\ cpc = "join"
    /\ threads["events"] = "exited"
    /\ cpc' = StopLogPart(log_handle)
    /\ log_handle' = FALSE
    /\ rres' = [rres EXCEPT
          !.stop = IF StopLogPart(log_handle) = "idle" THEN "ok" ELSE @]
    /\ UNCHANGED <<running, rxc, txc, chan, handle, threads, timeout,
                   delivered, logged, received>>
    /\ UNCHANGED readerRest

\* bpf.rs 264-266: the log thread has ended and is joined; stop returns Ok.
StopJoinLog ==
    /\ cpc = "join_log"
    /\ threads["log"] = "exited"
    /\ cpc' = "idle"
    /\ rres' = [rres EXCEPT !.stop = "ok"]
    /\ UNCHANGED <<running, rxc, txc, chan, handle, log_handle, threads,
                   timeout, delivered, logged, received>>
    /\ UNCHANGED readerRest

\* The reader and its consumer, the log ring buffer staying silent.
NextReader ==
    \/ Start
    \/ \E t \in ReaderThreads : LoopCheck(t)
    \/ \E t \in ReaderThreads : PollReturn(t)
    \/ EventsCallback
    \/ Terminate
    \/ NextEventCall
    \/ NextEventReturn
    \/ Stop
    \/ StopJoin
    \/ StopJoinLog

SpecReader == InitReader /\ [][NextReader]_vars

\* The two reader threads with records on both ring buffers, the consumer
\* only starting and stopping them.
NextCallbacks ==
    \/ Start
    \/ \E t \in ReaderThreads : LoopCheck(t)
    \/ \E t \in ReaderThreads : PollReturn(t)
    \/ EventsCallback
    \/ LogCallback
    \/ Terminate
    \/ Stop
    \/ StopJoin
    \/ StopJoinLog

SpecCallbacks == InitReader /\ [][NextCallbacks]_vars

\* The scheduler runs every thread that can take a step: a reader thread
\* reads the flag and its poll returns after BPF_EVENTS_POLL_TIMEOUT_MS at
\* the latest, the consumer's receive returns once the channel yields, and a
\* join returns once the thread has ended.
ReaderFairness ==
    /\ \A t \in ReaderThreads : WF_vars(LoopCheck(t)) /\ WF_vars(PollReturn(t))
    /\ WF_vars(NextEventReturn)
    /\ WF_vars(StopJoin)
    /\ WF_vars(StopJoinLog)

\* The runs checked for progress: the frames that arrive are of two kinds,
\* one that decodes and one that does not.
FairFrames == {FrameA, FrameBadSection}
OnlyFairFrames ==
    \A i \in 1..Len(delivered) : delivered[i].frame \in FairFrames

NextReaderFair ==
    \/ Start
    \/ \E t \in ReaderThreads : LoopCheck(t)
    \/ \E t \in ReaderThreads : PollReturn(t)
    \/ EventsCallback /\ OnlyFairFrames'
    \/ Terminate
    \/ NextEventCall
    \/ NextEventReturn
    \/ Stop
    \/ StopJoin
    \/ StopJoinLog

SpecReaderFair == InitReader /\ [][NextReaderFair]_vars /\ ReaderFairness

\* ------------------------------------------------ Collectors

\* The collectors a run may list.  Each is told by what its can_run and init
\* return and by the kernel types it knows (collector.rs 373-410: the test's
\* DummyCollectorA is "skb", DummyCollectorB "no_init").
CollectorKinds == {"ok", "skb", "no_run", "no_init"}
can_run(kind) == kind # "no_run"
init(kind) == kind # "no_init"
known_kernel_types(kind) ==
    CASE kind = "skb" -> {"struct sk_buff *", "struct net_device *"}
      [] kind = "no_run" -> {"struct sk_buff *"}
      [] OTHER -> {}

\* ------------------------------------------------ parse_probe

\* Strings are sequences of characters.  The words parse_probe compares
\* the TYPE with (collector.rs 317, 341-345) and the ones the help of
\* --probe lists (cli.rs 50-71).
W_kprobe == <<"k", "p", "r", "o", "b", "e">>
W_kretprobe == <<"k", "r", "e", "t", "p", "r", "o", "b", "e">>
W_tp == <<"t", "p">>
W_k == <<"k">>
W_kr == <<"k", "r">>
W_raw_tracepoint ==
    <<"r", "a", "w", "_", "t", "r", "a", "c", "e", "p", "o", "i", "n", "t">>

\* The kernel the inspector looks at: the functions and the events that can
\* be traced, and the types of their parameters (kernel.rs 250-279,
\* 304-310).
TraceableFuncs ==
    {<<"a">>, <<"a", "b">>, <<"a", ".", "b">>, <<"b", "a", "b">>}
TraceableEvents == {<<"b", ":", "a">>, <<"b", ":", "b">>}
ParameterTypes(name) ==
    CASE name = <<"a">> -> {"struct sk_buff *"}
      [] name = <<"a", "b">> -> {"struct net_device *", "int"}
      [] name = <<"b", ":", "a">> -> {"struct sk_buff *", "int"}
      [] name = <<"b", "a", "b">> -> {"int"}
      [] OTHER -> {}
parameter_offset(symbol, type) == type \in ParameterTypes(symbol.name)

\* collector.rs 308-314: probe.split_once(':') splits at the first ':'.
SplitOnce(s) ==
    LET at == {i \in 1..Len(s) : s[i] = ":"}
        first == CHOOSE i \in at : \A j \in at : i <= j
    IN IF at = {} THEN [some |-> FALSE, type_str |-> <<>>, target |-> s]
       ELSE [some |-> TRUE,
             type_str |-> SubSeq(s, 1, first - 1),
             target |-> SubSeq(s, first + 1, Len(s))]

RECURSIVE ReplaceStar(_)
\* kernel.rs 336: target.replace('*', ".*").
ReplaceStar(s) ==
    IF s = <<>> THEN <<>>
    ELSE (IF Head(s) = "*" THEN <<".", "*">> ELSE <<Head(s)>>)
            \o ReplaceStar(Tail(s))

RECURSIVE RegexNew(_)
\* kernel.rs 337: Regex::new reads the pattern: ".*" is any run of
\* characters, "." alone any one character, the other characters of the
\* names stand for themselves.
RegexNew(s) ==
    IF s = <<>> THEN <<>>
    ELSE IF Head(s) = "." /\ Len(s) > 1 /\ s[2] = "*"
    THEN <<"ANY*">> \o RegexNew(Tail(Tail(s)))
    ELSE IF Head(s) = "." THEN <<"ANY">> \o RegexNew(Tail(s))
    ELSE <<Head(s)>> \o RegexNew(Tail(s))

RECURSIVE is_match(_, _)
\* kernel.rs 336, 344: re.is_match(f) for a pattern anchored at both ends.
is_match(re, f) ==
    IF re = <<>> THEN f = <<>>
    ELSE IF Head(re) = "ANY*"
    THEN is_match(Tail(re), f) \/ (f # <<>> /\ is_match(re, Tail(f)))
    ELSE IF Head(re) = "ANY" THEN f # <<>> /\ is_match(Tail(re), Tail(f))
    ELSE f # <<>> /\ Head(f) = Head(re) /\ is_match(Tail(re), Tail(f))

\* kernel.rs 329-347: the traceable functions the pattern matches.
matching_functions(target) ==
    {f \in TraceableFuncs : is_match(RegexNew(ReplaceStar(target)), f)}

\* Symbols, and the probes made of them.
Func(name) == [sym |-> "Func", name |-> name]
Event(name) == [sym |-> "Event", name |-> name]

\* matching_functions_to_symbols: the functions matched, as symbols; no
\* match is an error (collector.rs 563-564: "foobar", "kprobe:foobar").
matching_functions_to_symbols(target) ==
    LET fs == matching_functions(target)
    IN [ok |-> fs # {}, symbols |-> {Func(f) : f \in fs}]

\* Symbol::from_name: the traceable function or event of that name, an
\* error without one (collector.rs 565: "tp:42:foobar").
from_name(name) ==
    IF name \in TraceableFuncs
    THEN [ok |-> TRUE, symbols |-> {Func(name)}]
    ELSE IF name \in TraceableEvents
    THEN [ok |-> TRUE, symbols |-> {Event(name)}]
    ELSE [ok |-> FALSE, symbols |-> {}]

\* collector.rs 341-346: the probe made of a symbol for a TYPE; Probe::kprobe
\* and Probe::kretprobe take functions, Probe::raw_tracepoint events.
ProbeOfType(type_str, symbol) ==
    CASE type_str = W_kprobe ->
             [ok |-> symbol.sym = "Func", kind |-> "Kprobe"]
      [] type_str = W_kretprobe ->
             [ok |-> symbol.sym = "Func", kind |-> "Kretprobe"]
      [] type_str = W_tp ->
             [ok |-> symbol.sym = "Event", kind |-> "RawTracepoint"]
      [] OTHER -> [ok |-> FALSE, kind |-> "Invalid TYPE"]

\* collector.rs 322-338: a symbol is valid when one of the known kernel
\* types is the type of one of its parameters.
IsValid_Always(symbol, types) == TRUE

IsValid(symbol, types) == \E t \in types : parameter_offset(symbol, t)

\* collector.rs 303-348: parse_probe on the string s with the known kernel
\* types of the Collectors object.  The probes are in the order the set of
\* traceable functions yields them, which the model leaves open: they are
\* given as a set.
parse_probe(s, types) ==
    LET sp == SplitOnce(s)
        type_str == IF sp.some THEN sp.type_str ELSE W_kprobe
        target == sp.target
        found == IF type_str = W_kprobe
                 THEN matching_functions_to_symbols(target)
                 ELSE from_name(target)
        made == {[symbol |-> y, probe |-> ProbeOfType(type_str, y)] :
                    y \in found.symbols}
        ok == found.ok /\ \A m \in made : m.probe.ok
    IN [done |-> TRUE,
        ok |-> ok,
        probes |-> IF ok
                   THEN {[kind |-> m.probe.kind, name |-> m.symbol.name] :
                            m \in made}
                   ELSE {},
        warned |-> {y.name : y \in {z \in found.symbols : ~IsValid(z, types)}}]

\* The probes given on the command line.
ProbeArgs ==
    {<<>>,
     <<W_kprobe \o <<":", "a">>>>,
     <<W_kprobe \o <<":", "a">>, <<"f", "o", "o", ":", "b">>>>}

\* The strings handed to parse_probe: a TARGET over the characters of the
\* names, the wildcard and the separator, alone or after a TYPE and ':'.
TargetChars == {"a", "b", ".", "*", ":"}
Targets == SeqsUpTo(TargetChars, MaxTargetLen)
TypeWords ==
    {W_kprobe, W_k, W_kretprobe, W_kr, W_raw_tracepoint, W_tp,
     <<"f", "o", "o">>, <<>>}
ProbeStrings ==
    Targets \cup {w \o <<":">> \o t : w \in TypeWords, t \in Targets}
KnownTypeSets ==
    {{}, {"struct sk_buff *"}, {"struct sk_buff *", "struct net_device *"}}

InitProbe ==
    /\ ParseIdle
    /\ JsonIdle
    /\ event = EmptyMap
    /\ inserts = <<>>
    /\ ReaderIdle
    /\ CollIdle
    /\ CatIdle
    /\ SortIdle
    /\ GcIdle
    /\ LateIdle
    /\ probe \in ProbeStrings
    /\ ktypes \in KnownTypeSets
    /\ pres = ProbeNone

probeRest ==
    <<parseVars, event, inserts, jsonVars, readerVars, collVars, sortVars,
      gcVars, lateVars>>

\* collector.rs 303-348: parse_probe is called on the string.
ParseProbe ==
    /\ ~pres.done
    /\ pres' = parse_probe(probe, ktypes)
    /\ UNCHANGED <<probe, ktypes, catVars>>
    /\ UNCHANGED probeRest

\* A probe as the ProbeManager takes it: its kind and target, its hooks in
\* order and its options.
Probe(kind, name, hooks, options) ==
    [kind |-> kind, name |-> name, hooks |-> hooks, options |-> options]
KeyOf(p) == [kind |-> p.kind, name |-> p.name]

\* ProbeManager::register_probe: a probe whose (kind, target) is new gets
\* an entry; one whose key is there already is merged into the entry, its
\* hooks after the ones held and its options added.
register_probe(c, p) ==
    [k \in DOMAIN c \cup {KeyOf(p)} |->
        IF k # KeyOf(p) THEN c[k]
        ELSE IF k \in DOMAIN c
        THEN [hooks |-> c[k].hooks \o p.hooks,
              options |-> c[k].options \cup p.options]
        ELSE [hooks |-> p.hooks, options |-> p.options]]

RECURSIVE RegisterAll(_, _)
\* The probes of ps registered one after the other.
RegisterAll(c, ps) ==
    IF ps = <<>> THEN c
    ELSE RegisterAll(register_probe(c, Head(ps)), Tail(ps))

RECURSIVE SeqOfSet(_)
\* The elements of a set in one of their orders.
SeqOfSet(S) ==
    IF S = {} THEN <<>>
    ELSE LET x == CHOOSE y \in S : TRUE IN <<x>> \o SeqOfSet(S \ {x})

\* collector.rs 216-218: the probes parse_probe returned are registered;
\* they carry no hook and no option.
RegisterParsed ==
    /\ pres.done /\ pres.ok
    /\ ~attached.done
    /\ reglog = <<>>
    /\ LET ps == SeqOfSet({Probe(q.kind, q.name, <<>>, {}) : q \in pres.probes})
       IN /\ catalogue' = RegisterAll(catalogue, ps)
          /\ reglog' = reglog \o ps
    /\ UNCHANGED <<probeVars, attached>>
    /\ UNCHANGED probeRest

\* collector.rs 237: probes.attach() attaches every probe of the catalogue.
Attach ==
    /\ ~attached.done
    /\ attached' = [done |-> TRUE, keys |-> DOMAIN catalogue]
    /\ UNCHANGED <<probeVars, catalogue, reglog>>
    /\ UNCHANGED probeRest

NextProbe ==
    \/ ParseProbe
    \/ RegisterParsed
    \/ Attach

SpecProbe == InitProbe /\ [][NextProbe]_vars

\* The names the OVS collector probes stand for functions and events of the
\* kernel above.
ovs_execute_actions == <<"a", "b">>
ovs_do_execute_action == <<"b", ":", "b">>

\* ovs.rs 311-345: the probes add_exec_hooks registers, in order: with
\* tracking a kprobe and a kretprobe on ovs_execute_actions, each with its
\* hook, then the raw tracepoint of the action execution.
ExecActionsRetKind_Kprobe == "Kprobe"

ExecActionsRetKind == "Kretprobe"

add_exec_hooks(track) ==
    (IF track
     THEN <<Probe("Kprobe", ovs_execute_actions,
                  <<"kernel_exec_actions">>, {}),
            Probe(ExecActionsRetKind, ovs_execute_actions,
                  <<"kernel_exec_actions_ret">>, {})>>
     ELSE <<>>)
       \o <<Probe("RawTracepoint", ovs_do_execute_action,
                  <<"kernel_exec_tp">>, {})>>

\* The probes the other collectors register from their init.
SomeProbes ==
    {Probe(k, n, h, o) :
        k \in {"Kprobe", "Kretprobe"},
        n \in {ovs_execute_actions, <<"a">>},
        h \in {<<"h1">>, <<"h2">>},
        o \in {{}, {"StackTrace"}}}

InitCatalogue ==
    /\ ParseIdle
    /\ JsonIdle
    /\ event = EmptyMap
    /\ inserts = <<>>
    /\ ReaderIdle
    /\ CollIdle
    /\ ToolIdle

\* A collector registers a probe from its init.
RegisterProbe ==
    /\ ~attached.done
    /\ Len(reglog) < MaxRegs
    /\ \E p \in SomeProbes :
          /\ catalogue' = register_probe(catalogue, p)
          /\ reglog' = Append(reglog, p)
    /\ UNCHANGED <<probeVars, attached>>
    /\ UNCHANGED probeRest

\* ovs.rs 311-345: the OVS collector adds its exec hooks.
AddExecHooks ==
    /\ ~attached.done
    /\ Len(reglog) < MaxRegs
    /\ \A i \in 1..Len(reglog) : reglog[i].kind # "RawTracepoint"
    /\ \E track \in BOOLEAN :
          /\ catalogue' = RegisterAll(catalogue, add_exec_hooks(track))
          /\ reglog' = reglog \o add_exec_hooks(track)
    /\ UNCHANGED <<probeVars, attached>>
    /\ UNCHANGED probeRest

NextCatalogue ==
    \/ RegisterProbe
    \/ AddExecHooks
    \/ Attach

SpecCatalogue == InitCatalogue /\ [][NextCatalogue]_vars

\* ------------------------------------------------ sort

\* An event of the input told by its place in the file and by the tracking
\* id AddTracking gives it; 0 is an event without one.
SortEvent(i, tid) == [idx |-> i, tid |-> tid]

\* EventSorter::add: an event whose tracking id has a series is appended to
\* it; any other event starts a new series, told by the tracking id and by
\* the arrival index of its first event.
SorterAdd(s, ev) ==
    LET at == {k \in 1..Len(s) : ev.tid # 0 /\ s[k].tid = ev.tid}
    IN IF at # {}
       THEN [k \in 1..Len(s) |->
               IF k \in at THEN [s[k] EXCEPT !.events = Append(@, ev)]
               ELSE s[k]]
       ELSE Append(s, [tid |-> ev.tid, first |-> ev.idx, events |-> <<ev>>])

RECURSIVE SorterLen(_)
\* EventSorter::len: the number of events held.
SorterLen(s) ==
    IF s = <<>> THEN 0 ELSE Len(Head(s).events) + SorterLen(Tail(s))

\* EventSorter::pop_oldest: the series with the smallest arrival index of
\* its first event is taken out.
PopOldest(s) ==
    LET k == CHOOSE i \in 1..Len(s) : \A j \in 1..Len(s) : s[i].first <= s[j].first
    IN [series |-> s[k],
        rest |-> SubSeq(s, 1, k - 1) \o SubSeq(s, k + 1, Len(s))]

\* sort.rs 126-129, 142-144: the series is handed to the printers, which
\* write the series in the order they get them; n tells how many events
\* were read by then.
EmitSeries_Front(out, series, n) == <<[series |-> series, at |-> n]>> \o out

EmitSeries(out, series, n) == Append(out, [series |-> series, at |-> n])

\* sort.rs 124: the buffer is flushed while it holds max_buffer events or
\* more.
BufferFull_Above(len, max) == len > max

BufferFull(len, max) == len >= max

RECURSIVE FlushFull(_, _, _, _)
\* sort.rs 123-132: with a max_buffer other than 0, the oldest series are
\* popped and printed while the buffer is full.
FlushFull(s, out, max, n) ==
    IF max = 0 \/ ~BufferFull(SorterLen(s), max) \/ s = <<>>
    THEN [sorter |-> s, emitted |-> out]
    ELSE FlushFull(PopOldest(s).rest,
                   EmitSeries(out, PopOldest(s).series, n), max, n)

\* sort.rs 139-146: after the loop the remaining series are popped and
\* printed, oldest first.
FlushRemaining_None(s, out, n) == [sorter |-> s, emitted |-> out]

RECURSIVE FlushRemaining(_, _, _)
FlushRemaining(s, out, n) ==
    IF SorterLen(s) = 0 THEN [sorter |-> s, emitted |-> out]
    ELSE FlushRemaining(PopOldest(s).rest,
                        EmitSeries(out, PopOldest(s).series, n), n)

\* The input files: the tracking ids of their events, a new id being the
\* next one not used before it.
TidStreams ==
    {t \in SeqsUpTo(0..MaxTids, MaxStream) :
        \A i \in 1..Len(t) :
            t[i] > 1 => \E j \in 1..(i - 1) : t[j] = t[i] - 1}

InitSort ==
    /\ ParseIdle
    /\ JsonIdle
    /\ event = EmptyMap
    /\ inserts = <<>>
    /\ ReaderIdle
    /\ CollIdle
    /\ ProbeIdle
    /\ CatIdle
    /\ GcIdle
    /\ LateIdle
    /\ \E t \in TidStreams :
          stream = [i \in 1..Len(t) |-> SortEvent(i, t[i])]
    /\ max_buffer \in 0..MaxBuffer
    /\ nread = 0
    /\ sorter = <<>>
    /\ emitted = <<>>
    /\ spc = "loop"

sortRest ==
    <<parseVars, event, inserts, jsonVars, readerVars, collVars, probeVars,
      catVars, gcVars, lateVars>>

\* sort.rs 113-134: the flag is set and next_event returns an event: it is
\* added to the sorter and the full buffer flushed.
SortEventRead ==
    /\ spc = "loop"
    /\ running
    /\ nread < Len(stream)
    /\ LET r == FlushFull(SorterAdd(sorter, stream[nread + 1]), emitted,
                          max_buffer, nread + 1)
       IN /\ sorter' = r.sorter
          /\ emitted' = r.emitted
    /\ nread' = nread + 1
    /\ UNCHANGED <<stream, max_buffer, spc>>
    /\ UNCHANGED sortRest

\* sort.rs 113, 135, 138-150: the loop ends, by Eof or by the flag; the
\* remaining series are flushed and run returns Ok.
SortEnd ==
    /\ spc = "loop"
    /\ ~running \/ nread = Len(stream)
    /\ LET r == FlushRemaining(sorter, emitted, nread)
       IN /\ sorter' = r.sorter
          /\ emitted' = r.emitted
    /\ spc' = "done"
    /\ UNCHANGED <<stream, max_buffer, nread>>
    /\ UNCHANGED sortRest

NextSort ==
    \/ SortEventRead
    \/ SortEnd
    \/ Terminate

SpecSort == InitSort /\ [][NextSort]_vars

\* ------------------------------------------------ the tracking GC

\* ovs.rs 21-29: the GC of the OVS maps sweeps every 5 seconds and takes
\* entries older than 60 seconds for outdated.
OVS_TRACKING_GC_INTERVAL == 5
TRACKING_OLD_LIMIT == 60

\* ovs.rs 405-408: the maps handed to the GC.
TrackingMaps == {"enqueue_tracking", "flow_exec_tracking"}

\* A value of a tracking map: its first 8 bytes are the insertion time the
\* kernel side wrote, the bytes after them the rest of the entry.  Times are
\* counted in whole seconds.
TrackingValue(t) == [first8 |-> t, rest |-> 0]

\* ovs.rs 411-415: the closure given to the GC reads the insertion time
\* from the first 8 bytes of the value.
extract_age_Rest(v) == v.rest

extract_age(v) == v.first8

\* TrackingGC sweep: an entry is deleted when it is older than limit.
IsOld(v, t) == t - extract_age(v) > TRACKING_OLD_LIMIT

\* No entry in a map, and an entry never inserted.
NoEntry == [some |-> FALSE, value |-> TrackingValue(0)]
Never == [what |-> "never", t0 |-> 0, age |-> 0]

InitGc ==
    /\ ParseIdle
    /\ JsonIdle
    /\ event = EmptyMap
    /\ inserts = <<>>
    /\ ReaderIdle
    /\ CollIdle
    /\ ProbeIdle
    /\ CatIdle
    /\ SortIdle
    /\ LateIdle
    /\ now = 0
    /\ tmaps = [m \in TrackingMaps |-> NoEntry]
    /\ fate = [m \in TrackingMaps |-> Never]
    /\ gcnext = OVS_TRACKING_GC_INTERVAL

gcRest ==
    <<parseVars, event, inserts, jsonVars, readerVars, collVars, probeVars,
      catVars, sortVars, lateVars>>

\* A sweep is due: the GC runs and its interval has elapsed.
SweepDue == running /\ gcnext <= now

\* A second passes; the sweep that is due comes first.
Tick ==
    /\ now < MaxTime
    /\ ~SweepDue
    /\ now' = now + 1
    /\ UNCHANGED <<tmaps, fate, gcnext>>
    /\ UNCHANGED gcRest

\* The kernel side inserts an entry in a tracking map, its value starting
\* with the time of the insertion.
GcInsert ==
    /\ now <= MaxInsertTime
    /\ \E m \in TrackingMaps :
          /\ fate[m].what = "never"
          /\ tmaps' = [tmaps EXCEPT
                          ![m] = [some |-> TRUE, value |-> TrackingValue(now)]]
          /\ fate' = [fate EXCEPT ![m] = [what |-> "held", t0 |-> now, age |-> 0]]
    /\ UNCHANGED <<now, gcnext>>
    /\ UNCHANGED gcRest

\* The data path removes its entry.
PathRemove ==
    /\ \E m \in TrackingMaps :
          /\ tmaps[m].some
          /\ tmaps' = [tmaps EXCEPT ![m] = NoEntry]
          /\ fate' = [fate EXCEPT ![m].what = "path"]
    /\ UNCHANGED <<now, gcnext>>
    /\ UNCHANGED gcRest

\* TrackingGC thread: every interval seconds each map is enumerated and the
\* old entries deleted.
Sweep ==
    /\ SweepDue
    /\ tmaps' = [m \in TrackingMaps |->
                   IF tmaps[m].some /\ IsOld(tmaps[m].value, now)
                   THEN NoEntry ELSE tmaps[m]]
    /\ fate' = [m \in TrackingMaps |->
                  IF tmaps[m].some /\ IsOld(tmaps[m].value, now)
                  THEN [fate[m] EXCEPT !.what = "gc", !.age = now - fate[m].t0]
                  ELSE fate[m]]
    /\ gcnext' = now + OVS_TRACKING_GC_INTERVAL
    /\ UNCHANGED now
    /\ UNCHANGED gcRest

NextGc ==
    \/ Tick
    \/ GcInsert
    \/ PathRemove
    \/ Sweep
    \/ Terminate

SpecGc == InitGc /\ [][NextGc]_vars

\* A call the Collectors object makes on one of its parts.
Call(op, arg, ok) == [op |-> op, arg |-> arg, ok |-> ok]

\* collector.rs 162-171: a can_run failure skips the collector when the list
\* of collectors is the default one and fails init otherwise.
AfterCanRunFailure_AlwaysSkip(default) == "continue"

AfterCanRunFailure(default) == IF default THEN "continue" ELSE "bail"

\* collector.rs 173-175: an init failure fails Collectors::init.
AfterInitFailure_SkipInAuto(default) == IF default THEN "continue" ELSE "bail"

AfterInitFailure(default) == "bail"

RECURSIVE InitLoop(_, _, _)
\* collector.rs 153-186: the loop over the collectors of the command line;
\* acc holds the error, the calls made, the collectors loaded and the kernel
\* types recorded so far.
InitLoop(cli, i, acc) ==
    IF i > Len(cli.collectors) THEN acc
    ELSE LET kind == cli.collectors[i]
             asked == [acc EXCEPT
                 !.calls = Append(@, Call("can_run", i, can_run(kind)))]
             inited == [asked EXCEPT
                 !.calls = Append(@, Call("init", i, init(kind)))]
         IN IF ~can_run(kind)
            THEN IF AfterCanRunFailure(cli.default) = "continue"
                 THEN InitLoop(cli, i + 1, asked)
                 ELSE [asked EXCEPT !.err = "Can't run collector"]
            ELSE IF ~init(kind)
            THEN IF AfterInitFailure(cli.default) = "continue"
                 THEN InitLoop(cli, i + 1, inited)
                 ELSE [inited EXCEPT
                          !.err = "Could not initialize the collector"]
            ELSE InitLoop(cli, i + 1,
                     [inited EXCEPT
                         !.loaded = Append(@, i),
                         !.types = @ \cup known_kernel_types(kind)])

RECURSIVE RegisterProbes(_, _)
\* collector.rs 216-218: the probes parsed are registered one by one.
RegisterProbes(ps, i) ==
    IF i > Len(ps) THEN <<>>
    ELSE <<Call("register_probe", ps[i], TRUE)>> \o RegisterProbes(ps, i + 1)

\* collector.rs 137-221: Collectors::init on the object st.  env tells what
\* the steps outside the loop return: pre (signals, debug and stack options),
\* tracking (init_tracking) and filters (setup_filters).
CollectorsInit(st, env) ==
    LET loop == InitLoop(st.cli, 1,
                    [err |-> "", calls |-> <<>>, loaded |-> <<>>,
                     types |-> st.known_kernel_types])
        seen == [st EXCEPT !.known_kernel_types = loop.types]
        info == IF st.cli.default
                THEN <<Call("info: Module(s) started", loop.loaded, TRUE)>>
                ELSE <<>>
        track == "struct sk_buff *" \in loop.types
        tracked == IF track
                   THEN <<Call("init_tracking", "", env.tracking)>> ELSE <<>>
        parsed_ok == \A k \in 1..Len(st.cli.probes) :
                        parse_probe(st.cli.probes[k], loop.types).ok
        upto(cs) == loop.calls \o info \o cs
    IN IF ~env.pre
       THEN [st |-> [st EXCEPT !.init = "err"], calls |-> <<>>]
       ELSE IF loop.err # ""
       THEN [st |-> [seen EXCEPT !.init = "err", !.err = loop.err],
             calls |-> loop.calls]
       ELSE IF track /\ ~env.tracking
       THEN [st |-> [seen EXCEPT !.init = "err"], calls |-> upto(tracked)]
       ELSE IF ~env.filters
       THEN [st |-> [seen EXCEPT !.init = "err", !.tracking_gc = track],
             calls |-> upto(tracked)]
       ELSE IF ~parsed_ok
       THEN [st |-> [seen EXCEPT !.init = "err", !.tracking_gc = track],
             calls |-> upto(tracked)]
       ELSE [st |-> [seen EXCEPT !.init = "ok", !.tracking_gc = track,
                                 !.loaded = loop.loaded,
                                 !.registered = st.cli.probes],
             calls |-> upto(tracked \o RegisterProbes(st.cli.probes, 1))]

\* collector.rs 226: section_factories.take() leaves None behind.
TakeFactories_Keep(sf) == sf

TakeFactories(sf) == [some |-> FALSE, map |-> {}]

\* collector.rs 235-237: the reader is started, then the probes attached;
\* each step that fails ends start.  The calls made for a map of factories
\* and what the parts return.
StartCalls_AttachFirst(map, env) ==
    <<Call("attach", "", env.attach)>>
        \o (IF env.attach
            THEN <<Call("factory.start", "", map # {} /\ env.fails = "none")>>
            ELSE <<>>)

StartCalls(map, env) ==
    <<Call("factory.start", "", map # {} /\ env.fails = "none")>>
        \o (IF map # {} /\ env.fails = "none"
            THEN <<Call("attach", "", env.attach)>>
            ELSE <<>>)

\* Every call of cs returned Ok.
AllOk(cs) == \A i \in 1..Len(cs) : cs[i].ok

\* collector.rs 239-243, 252-257: a collector whose start() or stop() fails
\* is warned about and the loop goes on with the next collector.
AfterCollectorFailure_Bail(op) == "bail"

AfterCollectorFailure(op) == "warn"

RECURSIVE ForEachCollector(_, _, _, _)
\* collector.rs 239-243, 252-257: op ("start" or "stop") is called on the
\* collectors i..n of the group, in order; fail holds the ones whose call
\* returns an error.
ForEachCollector(op, n, fail, i) ==
    IF i > n THEN <<>>
    ELSE IF i \notin fail
    THEN <<Call(op, i, TRUE)>> \o ForEachCollector(op, n, fail, i + 1)
    ELSE <<Call(op, i, FALSE)>>
            \o (IF AfterCollectorFailure(op) = "warn"
                THEN <<Call("warn", i, TRUE)>>
                        \o ForEachCollector(op, n, fail, i + 1)
                ELSE <<Call("bail", i, FALSE)>>)

\* collector.rs 225-246: Collectors::start on the object st.  env tells what
\* gc.start, the ring buffers and attach return and which collectors fail
\* to start.
CollectorsStart(st, env) ==
    LET sf == st.section_factories
        taken == [st EXCEPT !.section_factories = TakeFactories(sf),
                            !.starts = @ + 1]
        gc == IF st.tracking_gc THEN <<Call("gc.start", "", env.gc)>> ELSE <<>>
        sc == StartCalls(sf.map, env)
        each == ForEachCollector("start", Len(st.cli.collectors), env.cfail, 1)
        bailed == \E i \in 1..Len(each) : each[i].op = "bail"
        ret(cs, ok, err) ==
            [st |-> taken,
             calls |-> cs \o <<Call("start.return", err, ok)>>,
             factory |-> \E i \in 1..Len(cs) : cs[i].op = "factory.start"]
    IN IF ~sf.some
       THEN ret(<<>>, FALSE, "No section factory found, aborting")
       ELSE IF ~AllOk(gc) THEN ret(gc, FALSE, "gc")
       ELSE IF ~AllOk(sc) THEN ret(gc \o sc, FALSE, "start")
       ELSE ret(gc \o sc \o each, ~bailed, IF bailed THEN "collector" ELSE "")

\* collector.rs 251-271: Collectors::stop on the object st.  env tells which
\* collectors fail to stop and what gc.join returns; factory.stop comes
\* last.
CollectorsStop(st, env) ==
    LET each == ForEachCollector("stop", Len(st.cli.collectors), env.cfail, 1)
        bailed == \E i \in 1..Len(each) : each[i].op = "bail"
        gc == IF st.tracking_gc THEN <<Call("gc.join", "", env.gc)>> ELSE <<>>
        fs == <<Call("factory.stop", "", TRUE)>>
        ret(cs, ok) ==
            [calls |-> cs \o <<Call("stop.return", "", ok)>>,
             factory |-> \E i \in 1..Len(cs) : cs[i].op = "factory.stop"]
    IN IF bailed THEN ret(each, FALSE)
       ELSE IF ~AllOk(gc) THEN ret(each \o gc, FALSE)
       ELSE ret(each \o gc \o fs, TRUE)

\* bpf.rs 256-267 as Collectors::stop sees it: the events handle is taken,
\* the flag cleared and the thread, which leaves its loop, joined; then the
\* log thread the same.
StopWith ==
    /\ running' = (IF handle THEN FALSE ELSE running)
    /\ handle' = FALSE
    /\ log_handle' = FALSE
    /\ threads' = [t \in ReaderThreads |->
                     IF (t = "events" /\ handle) \/ (t = "log" /\ log_handle)
                     THEN "exited" ELSE threads[t]]
    /\ txc' = (IF handle THEN FALSE ELSE txc)
    /\ rres' = [rres EXCEPT !.stop = "ok"]
    /\ UNCHANGED <<rxc, chan, cpc, timeout, delivered, logged, received>>

\* The command lines: the collectors listed (or the default list), and the
\* probes.
CliArgs ==
    [collectors : SeqsUpTo(CollectorKinds, MaxCollectors) \ {<<>>},
     default : BOOLEAN,
     probes : ProbeArgs]

InitEnvs == [pre : BOOLEAN, tracking : BOOLEAN, filters : BOOLEAN]
\* What the parts return to start() and to stop() on the object st; a part
\* start() or stop() does not get to returns Ok.
StartEnvs(st) ==
    {env \in [gc : BOOLEAN, fails : RingbufFailures, attach : BOOLEAN,
              cfail : SUBSET (1..Len(st.cli.collectors))] :
        /\ ~env.gc => st.section_factories.some /\ st.tracking_gc
        /\ env.fails # "none" => st.section_factories.some /\ env.gc
        /\ ~env.attach => st.section_factories.map # {} /\ env.gc
                              /\ env.fails = "none"
        /\ env.cfail # {} => st.section_factories.map # {} /\ env.gc
                                /\ env.fails = "none" /\ env.attach}
StopEnvs(st) ==
    {env \in [gc : BOOLEAN, cfail : SUBSET (1..Len(st.cli.collectors))] :
        ~env.gc => st.tracking_gc}

\* Before get_collectors: no Collectors object.
CollNone ==
    [made |-> FALSE,
     cli |-> [collectors |-> <<>>, default |-> TRUE, probes |-> <<>>],
     section_factories |-> [some |-> FALSE, map |-> {}],
     reuse |-> {},
     known_kernel_types |-> {},
     tracking_gc |-> FALSE,
     loaded |-> <<>>,
     registered |-> <<>>,
     init |-> "none",
     err |-> "",
     starts |-> 0]

InitCollect ==
    /\ ParseIdle
    /\ JsonIdle
    /\ event = EmptyMap
    /\ inserts = <<>>
    /\ ReaderIdle
    /\ ToolIdle
    /\ cstate = CollNone
    /\ clog = <<>>

collRest == <<parseVars, event, inserts, jsonVars, toolVars>>

\* collector.rs 354-362, 87-124: get_collectors makes the reader, then the
\* Collectors object (the stack map is reused by the probes), then hands the
\* fd of the events map to the probes for reuse.
GetCollectors ==
    /\ ~cstate.made
    /\ \E cli \in CliArgs, map \in {{}, Factories} :
          cstate' = [cstate EXCEPT
              !.made = TRUE,
              !.cli = cli,
              !.section_factories = [some |-> TRUE, map |-> map],
              !.reuse = {"stack_map"} \cup {"events_map"}]
    /\ UNCHANGED <<clog, readerVars>>
    /\ UNCHANGED collRest

\* collector.rs 137-221: Collectors::init.
CollInit ==
    /\ cstate.made
    /\ cstate.init = "none"
    /\ cstate.starts = 0
    /\ \E env \in InitEnvs :
          LET r == CollectorsInit(cstate, env)
          IN /\ cstate' = r.st
             /\ clog' = clog \o r.calls \o <<Call("init.return", "", r.st.init = "ok")>>
    /\ UNCHANGED readerVars
    /\ UNCHANGED collRest

\* collector.rs 225-246: Collectors::start; when it gets to factory.start
\* the reader is started with the factories taken.
CollStart ==
    /\ cstate.made
    /\ cstate.init # "err"
    /\ cstate.starts < MaxStarts
    /\ \E env \in StartEnvs(cstate) :
          LET r == CollectorsStart(cstate, env)
          IN /\ cstate' = r.st
             /\ clog' = clog \o r.calls
             /\ IF r.factory
                THEN StartWith(cstate.section_factories.map, env.fails)
                ELSE UNCHANGED readerVars
    /\ UNCHANGED collRest

\* collector.rs 276-299, 251-271: process leaves its loop and calls
\* Collectors::stop, once, after a start() that returned Ok.
CollStop ==
    /\ cstate.made
    /\ \E r \in 1..Len(clog) : clog[r].op = "start.return" /\ clog[r].ok
    /\ \A r \in 1..Len(clog) : clog[r].op # "stop.return"
    /\ \E env \in StopEnvs(cstate) :
          LET r == CollectorsStop(cstate, env)
          IN /\ clog' = clog \o r.calls
             /\ IF r.factory THEN StopWith ELSE UNCHANGED readerVars
    /\ UNCHANGED cstate
    /\ UNCHANGED collRest

NextCollect ==
    \/ GetCollectors
    \/ CollInit
    \/ CollStart
    \/ CollStop

SpecCollect == InitCollect /\ [][NextCollect]_vars

\* ------------------------------------------------ the frame layout
\* The records of a frame as the data model lays them out (a 2-byte length
\* L, then records of a 4-byte header and size payload bytes each), read off
\* the buffer without reference to the decoder.

FrameL(d) == d[1] + 256 * d[2]
FrameEnd(d) == FrameL(d) + 2
SizesOk(d) == Len(d) >= 2 /\ FrameL(d) > 0 /\ FrameEnd(d) <= Len(d)

RecEnd(r) == r.hdr + 4 + r.size
RecOversize(end, r) == r.size > 0 /\ RecEnd(r) > end
RecKnown(r) == r.owner \in 1..11
RecOwner(r) == from_u8(r.owner)

\* The records whose header starts inside the frame and can be read, each
\* starting where the one before it says it ends.
RECURSIVE RecordsFrom(_, _, _)
RecordsFrom(d, end, c) ==
    IF c >= end \/ c + 4 > Len(d) THEN <<>>
    ELSE LET size == d[c + 3] + 256 * d[c + 4]
         IN <<[hdr |-> c, owner |-> d[c + 1], data_type |-> d[c + 2],
               size |-> size]>> \o RecordsFrom(d, end, c + 4 + size)

Records(d) == RecordsFrom(d, FrameEnd(d), 2)

\* The records before the first one that claims bytes past the frame end.
RECURSIVE KeptOf(_, _, _)
KeptOf(recs, end, i) ==
    IF i > Len(recs) \/ RecOversize(end, recs[i]) THEN <<>>
    ELSE <<recs[i]>> \o KeptOf(recs, end, i + 1)

Kept(d) == KeptOf(Records(d), FrameEnd(d), 1)

\* Some record claims bytes past the frame end; it is the one after the
\* records kept.
HasOversize(d) == Len(Kept(d)) < Len(Records(d))
OversizeRec(d) == Records(d)[Len(Kept(d)) + 1]

\* A record as the raw section that borrows its payload.
AsRawSection(d, r) ==
    [header |-> [owner |-> r.owner, data_type |-> r.data_type,
                 size |-> r.size],
     off |-> r.hdr + 4,
     data |-> SubSeq(d, r.hdr + 5, r.hdr + 4 + r.size)]

\* The records of recs owned by o that carry a payload, in frame order.
RECURSIVE VectorOf(_, _, _)
VectorOf(d, recs, o) ==
    IF recs = <<>> THEN <<>>
    ELSE LET r == Head(recs)
         IN (IF r.size > 0 /\ RecKnown(r) /\ RecOwner(r) = o
             THEN <<AsRawSection(d, r)>> ELSE <<>>)
            \o VectorOf(d, Tail(recs), o)

\* The owners of the records of recs that carry a payload.
OwnersOf(recs) ==
    {RecOwner(recs[i]) :
        i \in {j \in 1..Len(recs) : recs[j].size > 0 /\ RecKnown(recs[j])}}

\* Every owner of recs has a factory and the factory takes its vector.
AllDecode(d, recs) ==
    \A o \in OwnersOf(recs) :
        o \in Factories /\ ~TestEventCreate(VectorOf(d, recs, o)).err

\* What the loop must have collected once it is over: the records kept,
\* grouped by owner in frame order.
CollectedAsLaidOut(d, kept) ==
    /\ DOMAIN raw_sections = OwnersOf(kept)
    /\ \A o \in DOMAIN raw_sections : raw_sections[o] = VectorOf(d, kept, o)

\* The outcome is the one the records kept decide: Ok exactly when each of
\* their owners has a factory that takes its vector, and then one section
\* per owner, built from that vector.
OutcomeOfKept(d, kept) ==
    /\ (result = "ok") <=> AllDecode(d, kept)
    /\ result = "ok" =>
          /\ DOMAIN event = OwnersOf(kept)
          /\ \A o \in DOMAIN event :
                event[o] = TestEventCreate(VectorOf(d, kept, o)).ev
    /\ result = "err" => DOMAIN event = {}

\* ------------------------------------------------ C1

WellFormedFrame(d) ==
    /\ SizesOk(d)
    /\ LET rs == Records(d)
       IN /\ Len(rs) >= 1
          /\ \A i \in 1..Len(rs) :
                rs[i].size > 0 /\ RecEnd(rs[i]) <= FrameEnd(d)
                    /\ RecKnown(rs[i])
          /\ RecEnd(rs[Len(rs)]) = FrameEnd(d)
          /\ AllDecode(d, rs)

\* C1: a well-formed frame (L + 2 within the buffer, every record with a
\* payload, the records filling the L bytes exactly, every owner a SectionId
\* whose factory takes its records) decodes to Ok, and the Event holds a
\* section for exactly the owners of the frame's records.
C1_WellFormedDecodes ==
    (pc = "done" /\ WellFormedFrame(data)) =>
        /\ result = "ok"
        /\ DOMAIN event =
               {RecOwner(Records(data)[i]) : i \in 1..Len(Records(data))}
        /\ parse_raw_event(data).ok
        /\ DOMAIN parse_raw_event(data).event = DOMAIN event

\* Witness of C1: a well-formed frame of three records of two owners was
\* decoded.
C1_Witness ==
    /\ pc = "done"
    /\ WellFormedFrame(data)
    /\ Len(Records(data)) = 3
    /\ DOMAIN event = {"Common", "Kernel"}

\* ------------------------------------------------ C2

\* The buffers the size checks refuse: shorter than the length field, L = 0,
\* or L + 2 past the buffer.
BadSizes(d) ==
    Len(d) < 2 \/ FrameL(d) = 0 \/ FrameL(d) + 2 > Len(d)

\* C2: a buffer of length 0 or 1, a buffer with L = 0 and a buffer with
\* L + 2 greater than its length are refused: parse_raw_event never enters
\* its loop, calls no factory, and returns an error without an Event.
C2_BadSizesRejected ==
    BadSizes(data) =>
        /\ pc \in {"start", "done"}
        /\ calls = <<>>
        /\ DOMAIN event = {}
        /\ pc = "done" => result = "err"
        /\ ~parse_raw_event(data).ok

\* Witness of C2: a 2-byte buffer with L > 0 was refused.
C2_Witness ==
    /\ pc = "done"
    /\ Len(data) = 2
    /\ FrameL(data) > 0
    /\ result = "err"

\* ------------------------------------------------ C3

CallOwners == {calls[i].owner : i \in 1..Len(calls)}

\* The part of C3 that holds of every frame: a factory is called with the
\* whole vector of its owner's accepted records in frame order, at most once,
\* and only for an owner with an accepted record.
CallsWellFormed ==
    Len(calls) > 0 =>
        /\ SizesOk(data)
        /\ LET kept == Kept(data)
           IN \A i \in 1..Len(calls) :
                 /\ calls[i].owner \in OwnersOf(kept)
                 /\ calls[i].sections = VectorOf(data, kept, calls[i].owner)
        /\ \A i, j \in 1..Len(calls) :
              calls[i].owner = calls[j].owner => i = j

\* C3 as stated: once parse_raw_event has returned, the factory of every
\* owner with an accepted record was called exactly once.
C3_Original ==
    (pc = "done" /\ SizesOk(data)) =>
        /\ CallsWellFormed
        /\ \A o \in OwnersOf(Kept(data)) \cap Factories : o \in CallOwners

\* C3 as amended: the calls are well formed in every frame (whole vector, in
\* frame order, at most one call per owner, none for an owner without an
\* accepted record), and when parse_raw_event returns Ok every owner with an
\* accepted record had its factory called exactly once.
C3_FactoryCalls ==
    /\ CallsWellFormed
    /\ (pc = "done" /\ result = "ok" /\ SizesOk(data)) =>
          CallOwners = OwnersOf(Kept(data))

\* Witness of C3: a frame with records of two owners, one of them with
\* two records, was decoded with one call per owner.
C3_Witness ==
    /\ pc = "done"
    /\ result = "ok"
    /\ Len(calls) = 2
    /\ \E i \in 1..2 : Len(calls[i].sections) = 2

\* ------------------------------------------------ C4

UnknownOwnerRecs(kept) == {i \in 1..Len(kept) : ~RecKnown(kept[i])}

\* C4: a record whose owner byte is no SectionId is skipped and does not fail
\* the frame: the cursor never stops inside it, it is in no owner's vector,
\* the records after it are collected and dispatched as usual, and a frame
\* with only such records decodes to Ok with an Event without section.
C4_UnknownOwnerSkipped ==
    (pc \in {"loop", "dispatch", "done"} /\ SizesOk(data)) =>
        LET kept == Kept(data)
        IN UnknownOwnerRecs(kept) # {} =>
            /\ pc = "loop" =>
                  \A i \in UnknownOwnerRecs(kept) :
                      cursor <= kept[i].hdr \/ cursor >= RecEnd(kept[i])
            /\ pc \in {"dispatch", "done"} => CollectedAsLaidOut(data, kept)
            /\ pc = "done" => OutcomeOfKept(data, kept)
            /\ (pc = "done" /\ OwnersOf(kept) = {}) =>
                  (result = "ok" /\ DOMAIN event = {})

\* Witness of C4: a record of unknown owner with a payload came first, a
\* record of Common after it, and the frame decoded to the Common section.
C4_Witness ==
    /\ pc = "done"
    /\ SizesOk(data)
    /\ Len(Kept(data)) >= 2
    /\ ~RecKnown(Kept(data)[1])
    /\ Kept(data)[1].size > 0
    /\ result = "ok"
    /\ DOMAIN event = {"Common"}

\* ------------------------------------------------ C5

\* The records of size 0 whose header lies inside the frame.
EmptyRecs(end, kept) ==
    {i \in 1..Len(kept) : kept[i].size = 0 /\ kept[i].hdr + 4 <= end}

\* The frame d without the 4-byte record header at offset h.
WithoutHeader(d, h) ==
    LET L == FrameL(d) - 4
    IN <<L % 256, L \div 256>> \o SubSeq(d, 3, h) \o SubSeq(d, h + 5, Len(d))

\* The outcome is the one parse_raw_event gives for the frame d2.
SameOutcomeAs(d2) ==
    LET p2 == parse_raw_event(d2)
    IN /\ (result = "ok") <=> p2.ok
       /\ result = "ok" =>
             /\ DOMAIN event = DOMAIN p2.event
             /\ \A o \in DOMAIN event : event[o] = p2.event[o]

\* C5: a record of size 0 is skipped and does not fail the frame: it is in
\* no owner's vector, the header after its own is read next, and the frame
\* decodes as the frame without it does (to Ok with an Event without section
\* when it was the only record).
C5_EmptySectionSkipped ==
    (pc \in {"dispatch", "done"} /\ SizesOk(data)) =>
        LET kept == Kept(data)
            empty == EmptyRecs(FrameEnd(data), kept)
        IN empty # {} =>
            /\ CollectedAsLaidOut(data, kept)
            /\ \A o \in DOMAIN raw_sections :
                  \A k \in 1..Len(raw_sections[o]) :
                      raw_sections[o][k].header.size > 0
            /\ pc = "done" =>
                  \A i \in empty :
                      LET d2 == WithoutHeader(data, kept[i].hdr)
                      IN IF FrameL(d2) = 0
                         THEN result = "ok" /\ DOMAIN event = {}
                         ELSE SameOutcomeAs(d2)

\* Witness of C5: a frame with an empty record between two records of Common
\* decoded to Ok.
C5_Witness ==
    /\ pc = "done"
    /\ SizesOk(data)
    /\ Len(Kept(data)) = 3
    /\ Kept(data)[2].size = 0
    /\ result = "ok"
    /\ "Common" \in DOMAIN event
    /\ Len(raw_sections["Common"]) = 2

\* ------------------------------------------------ C6

\* C6: when a record claims a payload past L + 2 the loop stops at it: the
\* cursor goes no further than its header, nothing of it or after it is
\* collected, the records accepted before it are kept and dispatched, and
\* the outcome is the one those records decide (Ok with their sections).
C6_OversizeStops ==
    (pc \in {"loop", "dispatch", "done"} /\ SizesOk(data)) =>
        LET kept == Kept(data)
        IN HasOversize(data) =>
            /\ pc = "loop" => cursor <= OversizeRec(data).hdr
            /\ pc \in {"dispatch", "done"} =>
                  /\ cursor = OversizeRec(data).hdr + 4
                  /\ CollectedAsLaidOut(data, kept)
            /\ pc = "done" => OutcomeOfKept(data, kept)

\* Witness of C6: two records were accepted, the third went past the frame
\* end, and the frame decoded to Ok with the sections of the first two.
C6_Witness ==
    /\ pc = "done"
    /\ SizesOk(data)
    /\ HasOversize(data)
    /\ Len(Kept(data)) = 2
    /\ result = "ok"
    /\ DOMAIN event = {"Common", "Kernel"}

\* ------------------------------------------------ C7

\* Some owner of the records kept has a factory that refuses its vector.
SomeFactoryFails(d, kept) ==
    \E o \in OwnersOf(kept) \cap Factories :
        TestEventCreate(VectorOf(d, kept, o)).err

\* C7: when the factory of an owner present in the frame returns an error,
\* parse_raw_event returns an error and no Event, whatever the records of
\* the other owners decode to.
C7_SectionErrorIsFatal ==
    (pc = "done" /\ SizesOk(data) /\ SomeFactoryFails(data, Kept(data))) =>
        /\ result = "err"
        /\ DOMAIN event = {}
        /\ ~parse_raw_event(data).ok

\* Witness of C7: the factory of one owner had built its section when the
\* factory of another owner failed, and the frame was refused.
C7_Witness ==
    /\ pc = "done"
    /\ SizesOk(data)
    /\ result = "err"
    /\ Len(calls) = 2
    /\ ~TestEventCreate(calls[1].sections).err
    /\ TestEventCreate(calls[2].sections).err

\* ------------------------------------------------ C8

\* The first call of inserts made for owner o.
FirstInsert(o) ==
    inserts[CHOOSE i \in 1..Len(inserts) :
                /\ inserts[i].owner = o
                /\ \A j \in 1..(i - 1) : inserts[j].owner # o]

\* C8: insert_section fails exactly when the Event already holds a section
\* for the owner, and then leaves the Event as it was; so the Event holds one
\* section for each owner an insert was made for, the first one inserted.
C8_FirstInsertKept ==
    /\ \A i \in 1..Len(inserts) :
          inserts[i].ok <=> (\A j \in 1..(i - 1) :
                                 inserts[j].owner # inserts[i].owner)
    /\ DOMAIN event = {inserts[i].owner : i \in 1..Len(inserts)}
    /\ \A o \in DOMAIN event : event[o] = FirstInsert(o).section

\* Witness of C8: an insert for an owner already present, with another
\* section, has failed.
C8_Witness ==
    \E i \in 1..Len(inserts) :
        /\ ~inserts[i].ok
        /\ inserts[i].section # event[inserts[i].owner]

\* ------------------------------------------------ C9

\* C9 as stated: an Event keyed by any of the eleven SectionIds, written by
\* to_json and read back by from_json, gives Ok and an equal Event.
C9_RoundTrip ==
    (jpc = "done" /\ line = to_json(event)) =>
        /\ jres = "ok"
        /\ DOMAIN parsed = DOMAIN event
        /\ \A o \in DOMAIN event : parsed[o] = event[o]

\* ------------------------------------------------ C10

UnknownKeys(js) == {k \in DOMAIN js : k \notin DOMAIN event_sections}

\* C10: from_json on an object with a top-level key that is the name of no
\* registered section returns an error and no Event, whatever the other
\* keys and their values are.
C10_UnknownKeyRejected ==
    (jpc = "done" /\ UnknownKeys(line) # {}) =>
        (jres = "err" /\ DOMAIN parsed = {})

\* Witness of C10: a line with the key of a registered section and a value
\* its parser takes, and with a key of no section, was refused.
C10_Witness ==
    /\ jpc = "done"
    /\ jres = "err"
    /\ "md_common" \in DOMAIN line
    /\ "common" \in DOMAIN line
    /\ line["common"].shape = "CommonEvent"

\* ------------------------------------------------ claims on the reader

\* What parse_raw_event returns for each frame the kernel delivers.
Decoded == [d \in DeliveredFrames |-> parse_raw_event(d)]
MissingFactoryFrames ==
    {d \in DeliveredFrames :
        SizesOk(d) /\ \E o \in OwnersOf(Kept(d)) : o \notin Factories}

RECURSIVE EventsOfFrames(_, _)
\* The Events of the frames of log (entries of delivered) that were decoded
\* with success, in delivery order.
EventsOfFrames(log, i) ==
    IF i > Len(log) THEN <<>>
    ELSE LET r == Decoded[log[i].frame]
         IN (IF log[i].parsed /\ r.ok THEN <<r.event>> ELSE <<>>)
                \o EventsOfFrames(log, i + 1)

RECURSIVE EventsReceived(_, _)
\* The Events next_event returned, in call order.
EventsReceived(res, i) ==
    IF i > Len(res) THEN <<>>
    ELSE (IF res[i].result = "Event" THEN <<res[i].event>> ELSE <<>>)
            \o EventsReceived(res, i + 1)

\* C11: the events channel is FIFO.  The Events returned by the successive
\* next_event calls, followed by those still in the channel, are exactly the
\* Events of the frames handed to the events callback and decoded with
\* success, in delivery order: none is lost, duplicated or reordered.
C11_ChannelFifo ==
    EventsReceived(received, 1) \o chan = EventsOfFrames(delivered, 1)

\* Two different Events were received, in the order their frames came.
C11_Witness ==
    /\ Len(EventsReceived(received, 1)) = 2
    /\ received[1].event # received[2].event
    /\ Len(delivered) = 2

\* C12: a callback invoked while the flag is false returns -EINTR and
\* neither decodes, logs nor sends anything, whatever the record.
C12_StoppedCallbackReturnsEintr ==
    /\ \A i \in 1..Len(delivered) :
          ~delivered[i].running =>
              /\ delivered[i].ret = -EINTR
              /\ ~delivered[i].parsed
              /\ ~delivered[i].sent
              /\ delivered[i].log = <<>>
    /\ \A i \in 1..Len(logged) :
          ~logged[i].running =>
              /\ logged[i].ret = -EINTR
              /\ ~logged[i].parsed
              /\ logged[i].log = <<>>

\* C13: with the reader started, once the flag is cleared both reader
\* threads leave their poll loops, a consumer waiting in next_event(None)
\* gets its call back, and stop, once it joins, returns Ok with every thread
\* joined.
C13_ClearedFlagStopsReader ==
    /\ (rres.start = "ok" /\ ~running)
            ~> (\A t \in ReaderThreads : threads[t] = "exited")
    /\ (cpc = "recv" /\ timeout = "none" /\ ~running) ~> (cpc # "recv")
    /\ (cpc = "join" /\ rres.start = "ok")
            ~> (rres.stop = "ok" /\ ~handle /\ ~log_handle
                    /\ \A t \in ReaderThreads : threads[t] = "exited")

\* The flag was cleared while next_event(None) waited on an empty channel;
\* the call came back and stop returned Ok with both threads ended.
C13_Witness ==
    /\ rres.start = "ok"
    /\ rres.stop = "ok"
    /\ \A t \in ReaderThreads : threads[t] = "exited"
    /\ \E i \in 1..Len(received) :
          received[i].timeout = "none" /\ received[i].outcome = "disconnected"

\* C14: next_event(Some(d)) returns Timeout exactly when the channel yields
\* no event within d; next_event(None) never returns Timeout; no call
\* returns Eof; a call made without a receive channel returns an error.
\* (The timeout part is stated for a reader whose start returned Ok.)
C14_NextEventOutcomes ==
    \A i \in 1..Len(received) :
        LET r == received[i]
        IN /\ r.result # "Eof"
           /\ r.timeout = "none" => r.result # "Timeout"
           /\ ~r.rx => r.result = "Err"
           /\ (rres.start = "ok" /\ r.rx /\ r.timeout = "some") =>
                  (r.result = "Timeout" <=> r.outcome # "event")

\* parse_raw_event fails on the frame.
FailsToDecode(d) == ~Decoded[d].ok

MissingFactory(d) == d \in MissingFactoryFrames

\* C16: a frame with a record of a known owner that has no factory fails to
\* decode and ends the collection: no later frame is decoded and sent.
C16_MissingFactoryIsFatal ==
    \A i \in 1..Len(delivered) :
        (delivered[i].running /\ MissingFactory(delivered[i].frame)) =>
            /\ FailsToDecode(delivered[i].frame)
            /\ \A j \in (i + 1)..Len(delivered) : ~delivered[j].sent

\* ------------------------------------------------ claims on Collectors

\* The places of the calls of op in the log of calls.
CallsOf(op) == {k \in 1..Len(clog) : clog[k].op = op}

\* op was called on the i-th collector of the command line.
CalledOn(op, i) == \E k \in CallsOf(op) : clog[k].arg = i

\* C17: start ordering.  Whenever probes.attach() has been called, the
\* reader was started before it in the same start() (factory.start returned
\* Ok: the channel exists and both polling threads were spawned) and the
\* events map is registered for reuse in the probe manager; and once
\* factory.start has failed attach is never called.
C17_ReaderStartedBeforeAttach ==
    /\ \A i \in CallsOf("attach") :
          /\ \E j \in CallsOf("factory.start") : j < i /\ clog[j].ok
          /\ "events_map" \in cstate.reuse
          /\ rres.start = "ok" /\ rxc
          /\ rres.stop = "none" => handle /\ log_handle
          /\ \A t \in ReaderThreads : threads[t] # "none"
    /\ \A j \in CallsOf("factory.start") :
          ~clog[j].ok => \A i \in CallsOf("attach") : i < j

\* attach was called and returned Ok.
C17_Witness ==
    \E i \in CallsOf("attach") : clog[i].ok /\ cstate.starts = 1

\* The calls made by the start() or stop() that returned at place r.
CallsOfStart(r) ==
    LET rets == {q \in 1..(r - 1) :
                    clog[q].op \in {"start.return", "stop.return"}}
        last == IF rets = {} THEN 0
                ELSE CHOOSE q \in rets : \A p \in rets : p <= q
    IN (last + 1)..(r - 1)

\* C18: probes are attached exactly once.  Over any sequence of start()
\* calls attach is called at most once; a start() after the first fails with
\* "No section factory found" before it gets to attach; and a start() that
\* returns Ok has called attach exactly once.
C18_AttachedOnce ==
    /\ Cardinality(CallsOf("attach")) <= 1
    /\ \A r \in CallsOf("start.return") :
          /\ (\E q \in CallsOf("start.return") : q < r) =>
                /\ ~clog[r].ok
                /\ clog[r].arg = "No section factory found, aborting"
                /\ CallsOfStart(r) = {}
          /\ clog[r].ok =>
                Cardinality(CallsOfStart(r) \cap CallsOf("attach")) = 1

\* A start() returned Ok and the start() after it has returned.
C18_Witness ==
    /\ cstate.starts = 2
    /\ \E r \in CallsOf("start.return") : clog[r].ok
    /\ Cardinality(CallsOf("start.return")) = 2

\* The kernel types of the collectors whose init was called and returned Ok.
TypesOfInited ==
    UNION {known_kernel_types(cstate.cli.collectors[i]) :
             i \in {j \in 1..Len(cstate.cli.collectors) :
                      \E k \in CallsOf("init") : clog[k].arg = j /\ clog[k].ok}}

\* The i-th collector is in a list of started modules that was reported.
Reported(i) ==
    \E k \in CallsOf("info: Module(s) started") :
        \E n \in 1..Len(clog[k].arg) : clog[k].arg[n] = i

\* C19: auto-detect mode.  A collector whose can_run fails is not
\* initialised, its kernel types are not recorded and it is not reported as
\* started.  With the default list of collectors initialisation goes on with
\* the next collector; with a list the user gave Collectors::init returns
\* an error and no later collector is asked or initialised.
C19_AutoDetectSkips ==
    cstate.init # "none" =>
        LET list == cstate.cli.collectors
        IN /\ cstate.known_kernel_types = TypesOfInited
           /\ \A i \in 1..Len(list) :
                (CalledOn("can_run", i) /\ ~can_run(list[i])) =>
                    /\ ~CalledOn("init", i)
                    /\ ~Reported(i)
                    /\ IF cstate.cli.default
                       THEN i < Len(list) => CalledOn("can_run", i + 1)
                       ELSE /\ cstate.init = "err"
                            /\ \A j \in (i + 1)..Len(list) :
                                  ~CalledOn("can_run", j) /\ ~CalledOn("init", j)

\* With the default list, a collector that cannot run was skipped, the one
\* after it initialised and init returned Ok.
C19_Witness ==
    /\ cstate.init = "ok"
    /\ cstate.cli.default
    /\ \E i \in 1..(Len(cstate.cli.collectors) - 1) :
          /\ ~can_run(cstate.cli.collectors[i])
          /\ CalledOn("can_run", i)
          /\ CalledOn("init", i + 1)
          /\ Reported(i + 1)

\* C20: a collector init() failure is always fatal.  When init of a
\* collector that passed can_run fails, Collectors::init returns an error
\* with the default list as with a list the user gave, no later collector is
\* asked or initialised and no user probe is registered.
C20_InitFailureFatal ==
    cstate.init # "none" =>
        LET list == cstate.cli.collectors
        IN \A i \in 1..Len(list) :
              (CalledOn("init", i) /\ ~init(list[i])) =>
                  /\ cstate.init = "err"
                  /\ \A j \in (i + 1)..Len(list) :
                        ~CalledOn("can_run", j) /\ ~CalledOn("init", j)
                  /\ CallsOf("register_probe") = {}
                  /\ cstate.registered = <<>>

\* With the default list and probes on the command line, init of a
\* collector failed and another collector was listed after it.
C20_Witness ==
    /\ cstate.init = "err"
    /\ cstate.cli.default
    /\ cstate.cli.probes # <<>>
    /\ \E i \in 1..(Len(cstate.cli.collectors) - 1) :
          CalledOn("init", i) /\ ~init(cstate.cli.collectors[i])

\* In the calls ks, op was called once on each collector of the group, in
\* the order of the group, and each call that failed was warned about.
CalledOnEach(op, ks) ==
    LET n == Len(cstate.cli.collectors)
        at(i) == {k \in ks : clog[k].op = op /\ clog[k].arg = i}
    IN /\ \A i \in 1..n : Cardinality(at(i)) = 1
       /\ \A i \in 1..n, j \in 1..n :
             i < j => \A k \in at(i), l \in at(j) : k < l
       /\ \A k \in ks :
             (clog[k].op = op /\ ~clog[k].ok) =>
                 k + 1 \in ks /\ clog[k + 1].op = "warn"
                     /\ clog[k + 1].arg = clog[k].arg

\* C21: a collector start() or stop() failure is not fatal.  A start() that
\* got past probes.attach() returns Ok whichever collectors fail to start,
\* has called start() on every collector of the group and has logged each
\* failure; Collectors::stop calls stop() on every collector, logs each
\* failure, and goes on to the tracking GC and the reader: its result is
\* that of gc.join and factory.stop.
C21_CollectorFailureNotFatal ==
    /\ \A r \in CallsOf("start.return") :
          LET ks == CallsOfStart(r)
          IN (\E a \in ks : clog[a].op = "attach" /\ clog[a].ok) =>
                 /\ clog[r].ok
                 /\ CalledOnEach("start", ks)
    /\ \A r \in CallsOf("stop.return") :
          LET ks == CallsOfStart(r)
          IN /\ CalledOnEach("stop", ks)
             /\ \E g \in ks : clog[g].op \in {"gc.join", "factory.stop"}
             /\ clog[r].ok <=>
                   \A g \in ks : clog[g].op = "gc.join" => clog[g].ok
             /\ clog[r].ok => rres.stop = "ok" /\ ~handle /\ ~log_handle

\* A start() returned Ok although a collector failed to start, and the
\* stop() after it returned Ok although a collector failed to stop.
C21_Witness ==
    /\ \E r \in CallsOf("start.return"), k \in CallsOf("start") :
          clog[r].ok /\ ~clog[k].ok /\ k < r
    /\ \E r \in CallsOf("stop.return"), k \in CallsOf("stop") :
          clog[r].ok /\ ~clog[k].ok /\ k < r
    /\ Len(cstate.cli.collectors) > 1

\* ------------------------------------------------ claims on parse_probe

\* The number of ':' in a string, and whether it holds a '*'.
Colons(s) == Cardinality({i \in 1..Len(s) : s[i] = ":"})
HasStar(s) == \E i \in 1..Len(s) : s[i] = "*"

\* The TYPE words of the help of --probe, by the kind of probe they name.
KprobeWords == {W_kprobe, W_k}
KretprobeWords == {W_kretprobe, W_kr}
TracepointWords == {W_raw_tracepoint, W_tp}
AcceptedWords == KprobeWords \cup KretprobeWords \cup TracepointWords

\* parse_probe returned exactly one probe, of that kind on that name.
ParsedAs(kind, name) ==
    pres.ok /\ pres.probes = {[kind |-> kind, name |-> name]}

\* C22: default probe type.  A probe string with no TYPE prefix is a kprobe
\* on TARGET, unless TARGET holds exactly one ':', in which case it is a
\* raw tracepoint on TARGET: a traceable function name parses to the Kprobe
\* on it, a traceable "group:name" event to the RawTracepoint on it.
C22_DefaultProbeType ==
    pres.done =>
        /\ (Colons(probe) = 0 /\ probe \in TraceableFuncs) =>
               ParsedAs("Kprobe", probe)
        /\ (Colons(probe) = 1 /\ probe \in TraceableEvents
               /\ SplitOnce(probe).type_str \notin AcceptedWords) =>
               ParsedAs("RawTracepoint", probe)

\* C23: probe TYPE prefixes.  Each of kprobe, k, kretprobe, kr,
\* raw_tracepoint and tp is accepted and selects its kind of probe on a
\* target that can be traced; any other TYPE makes parse_probe return an
\* error.
C23_TypePrefixes ==
    (pres.done /\ SplitOnce(probe).some) =>
        LET w == SplitOnce(probe).type_str
            t == SplitOnce(probe).target
        IN /\ (w \in KprobeWords /\ t \in TraceableFuncs) =>
                  ParsedAs("Kprobe", t)
           /\ (w \in KretprobeWords /\ t \in TraceableFuncs) =>
                  ParsedAs("Kretprobe", t)
           /\ (w \in TracepointWords /\ t \in TraceableEvents) =>
                  ParsedAs("RawTracepoint", t)
           /\ (w \notin AcceptedWords
                  /\ ~(Colons(probe) = 1 /\ probe \in TraceableEvents)) =>
                  ~pres.ok

RECURSIVE GlobMatch(_, _)
\* The whole name f matches the pattern, '*' standing for any run of
\* characters and every other character for itself.
GlobMatch(pat, f) ==
    IF pat = <<>> THEN f = <<>>
    ELSE IF Head(pat) = "*"
    THEN GlobMatch(Tail(pat), f) \/ (f # <<>> /\ GlobMatch(pat, Tail(f)))
    ELSE f # <<>> /\ Head(f) = Head(pat) /\ GlobMatch(Tail(pat), Tail(f))

\* The TYPE parse_probe works with and the TARGET.
TypeOfProbe == IF SplitOnce(probe).some THEN SplitOnce(probe).type_str
               ELSE W_kprobe
TargetOfProbe == SplitOnce(probe).target

\* C24: wildcards are resolved only for kprobe.  A kprobe target holding
\* '*' yields one Kprobe per traceable function whose whole name matches
\* the pattern, '*' matching any run of characters, and parse_probe succeeds
\* exactly when there is such a function; a target holding '*' given with
\* the kretprobe or raw tracepoint type makes parse_probe return an error.
C24_WildcardsOnlyForKprobe ==
    (pres.done /\ HasStar(TargetOfProbe)) =>
        /\ TypeOfProbe = W_kprobe =>
              LET fs == {f \in TraceableFuncs : GlobMatch(TargetOfProbe, f)}
              IN /\ pres.ok <=> fs # {}
                 /\ pres.ok =>
                       pres.probes = {[kind |-> "Kprobe", name |-> f] : f \in fs}
        /\ TypeOfProbe \in {W_kretprobe, W_tp} => ~pres.ok

\* The symbols parse_probe resolved the target to.
Resolved ==
    IF TypeOfProbe = W_kprobe
    THEN matching_functions(TargetOfProbe)
    ELSE {TargetOfProbe} \cap (TraceableFuncs \cup TraceableEvents)

\* C25: a probe is useful iff its target has a parameter whose type is one
\* of the known kernel types; parse_probe returns a probe for every symbol
\* it resolved, useful or not, and warns about the useless ones and about
\* no other; every probe it returned is registered and, by the attach that
\* follows, attached.
C25_UselessProbesKept ==
    (pres.done /\ pres.ok) =>
        /\ {q.name : q \in pres.probes} = Resolved
        /\ pres.warned = {n \in Resolved : ParameterTypes(n) \cap ktypes = {}}
        /\ reglog # <<>> =>
              /\ DOMAIN catalogue = pres.probes
              /\ attached.done => attached.keys = pres.probes

\* A pattern resolved to a probe that is useful and to one that is not, and
\* both were registered and attached.
C25_Witness ==
    /\ pres.done /\ pres.ok
    /\ pres.warned # {}
    /\ \E q \in pres.probes : q.name \notin pres.warned
    /\ reglog # <<>>
    /\ attached.done

\* ------------------------------------------------ claims on the catalogue

\* The places of the log where a probe of key k was registered.
RegsOf(k) == {i \in 1..Len(reglog) : KeyOf(reglog[i]) = k}

RECURSIVE HooksUpTo(_, _)
\* The hooks of the probes of key k among the first n registered, in the
\* order of registration.
HooksUpTo(k, n) ==
    IF n = 0 THEN <<>>
    ELSE HooksUpTo(k, n - 1)
            \o (IF KeyOf(reglog[n]) = k THEN reglog[n].hooks ELSE <<>>)

\* C26: the probe catalogue deduplicates by (kind, target).  The catalogue
\* holds one probe for every key registered, its hooks being the hooks of
\* the probes registered for the key, in the order of registration, and its
\* options their union; probes of different kinds on one target are
\* different entries: the kprobe and the kretprobe add_exec_hooks puts on
\* ovs_execute_actions each keep their own hook.
C26_CatalogueDedup ==
    /\ DOMAIN catalogue = {KeyOf(reglog[i]) : i \in 1..Len(reglog)}
    /\ \A k \in DOMAIN catalogue :
          /\ catalogue[k].hooks = HooksUpTo(k, Len(reglog))
          /\ catalogue[k].options =
                UNION {reglog[i].options : i \in RegsOf(k)}
    /\ \A i \in 1..Len(reglog) :
          reglog[i].hooks = <<"kernel_exec_actions_ret">> =>
              LET k == [kind |-> "Kprobe", name |-> ovs_execute_actions]
                  kr == [kind |-> "Kretprobe", name |-> ovs_execute_actions]
              IN /\ {k, kr} \subseteq DOMAIN catalogue
                 /\ \A j \in 1..Len(catalogue[k].hooks) :
                       catalogue[k].hooks[j] # "kernel_exec_actions_ret"
                 /\ \A j \in 1..Len(catalogue[kr].hooks) :
                       catalogue[kr].hooks[j] # "kernel_exec_actions"

\* Two probes of one key were registered with different hooks and options
\* after add_exec_hooks put its kprobe and kretprobe on ovs_execute_actions.
C26_Witness ==
    /\ \E i \in 1..Len(reglog) :
          reglog[i].hooks = <<"kernel_exec_actions_ret">>
    /\ \E k \in DOMAIN catalogue :
          /\ Len(catalogue[k].hooks) = 2
          /\ catalogue[k].hooks[1] # catalogue[k].hooks[2]
          /\ catalogue[k].options # {}
          /\ \E i \in RegsOf(k) : reglog[i].options = {}

\* ------------------------------------------------ claims on sort

\* The events read so far, the events of a series and the events the
\* sorter holds.
EventsRead == {stream[i] : i \in 1..nread}
EventsIn(series) == {series.events[j] : j \in 1..Len(series.events)}
HeldEvents == UNION {EventsIn(sorter[k]) : k \in 1..Len(sorter)}

RECURSIVE EmittedCount(_)
\* How many events the first n series emitted hold.
EmittedCount(n) ==
    IF n = 0 THEN 0
    ELSE EmittedCount(n - 1) + Len(emitted[n].series.events)

\* The tracking ids of the events read, and the events read without one.
TidsRead == {e.tid : e \in EventsRead} \ {0}
Untracked == {e \in EventsRead : e.tid = 0}

C28_ArrivalOrderKept ==
    /\ \A i \in 1..Len(emitted) :
          LET es == emitted[i].series.events
          IN /\ es # <<>>
             /\ emitted[i].series.first = es[1].idx
             /\ \A a \in 1..Len(es), b \in 1..Len(es) :
                   a < b => es[a].idx < es[b].idx
    /\ \A i \in 1..Len(emitted), j \in 1..Len(emitted) :
          i < j => emitted[i].series.first < emitted[j].series.first
    /\ (/\ spc = "done"
        /\ max_buffer = 0
        /\ nread = 6
        /\ [i \in 1..Len(stream) |-> stream[i].tid] = <<1, 2, 1, 3, 2, 1>>) =>
            /\ [i \in 1..Len(emitted) |-> emitted[i].series.tid] = <<1, 2, 3>>
            /\ [i \in 1..Len(emitted) |-> Len(emitted[i].series.events)]
                  = <<3, 2, 1>>

\* The file A,B,A,C,B,A was sorted with max_buffer = 0.
C28_Witness ==
    /\ spc = "done"
    /\ max_buffer = 0
    /\ nread = 6
    /\ [i \in 1..Len(stream) |-> stream[i].tid] = <<1, 2, 1, 3, 2, 1>>
    /\ Len(emitted) = 3

\* C29: bounded buffering.  With max_buffer = N > 0 the sorter holds fewer
\* than N events once the handling of an event is over; the series taken
\* out are the oldest ones: every series still held started after every
\* series emitted, and a series emitted during the loop was emitted when
\* the count had reached N.
C29_BoundedBuffer ==
    /\ (spc # "idle" /\ max_buffer > 0) => SorterLen(sorter) < max_buffer
    /\ \A i \in 1..Len(emitted), k \in 1..Len(sorter) :
          emitted[i].series.first < sorter[k].first
    /\ \A i \in 1..Len(emitted) :
          (spc = "loop" /\ max_buffer > 0) =>
              Cardinality({e \in EventsRead :
                  /\ e.idx <= emitted[i].at
                  /\ \A j \in 1..(i - 1) :
                        e \notin EventsIn(emitted[j].series)}) >= max_buffer

\* With max_buffer = 3 a series of two events was emitted during the loop
\* and the sorter holds two events again.
C29_Witness ==
    /\ spc = "loop"
    /\ max_buffer = 3
    /\ SorterLen(sorter) = 2
    /\ \E i \in 1..Len(emitted) : Len(emitted[i].series.events) = 2

\* ------------------------------------------------ claims on the tracking GC

\* C30: tracking GC ageing.  With a sweep every 5 seconds and a limit of
\* 60 seconds, an entry inserted at t0 that the data path did not remove
\* is out of its map from t0 + limit + interval on, once the sweep of that
\* second has run, as long as the GC runs; and a sweep never deletes an
\* entry younger than the limit.
C30_GcAgeing ==
    \A m \in DOMAIN fate :
        /\ (/\ fate[m].what \in {"held", "gc"}
            /\ running
            /\ ~SweepDue
            /\ now >= fate[m].t0 + TRACKING_OLD_LIMIT + OVS_TRACKING_GC_INTERVAL)
              => ~tmaps[m].some
        /\ fate[m].what = "gc" => fate[m].age >= TRACKING_OLD_LIMIT
        /\ tmaps[m].some <=> fate[m].what = "held"

\* An entry that was exactly limit seconds old at a sweep was deleted by
\* the next one, at t0 + limit + interval.
C30_Witness ==
    \E m \in DOMAIN fate :
        /\ fate[m].what = "gc"
        /\ fate[m].age = TRACKING_OLD_LIMIT + OVS_TRACKING_GC_INTERVAL
        /\ running

\* ------------------------------------ the Common section (create)

COMMON_SECTION_CORE == 0
COMMON_SECTION_TASK == 1

\* The length of TaskName, event_byte_array!(TaskName, 64).
TaskNameLen == 64

\* mem::size_of::<RawCommonEvent>() (u64, u32) and
\* mem::size_of::<RawTaskEvent>() (u64, TaskName).
RawCommonEventLen == 12
RawTaskEventLen == 8 + TaskNameLen

\* The index of the first NUL of b, 0 when it has none.
FirstNul(b) ==
    IF \E i \in 1..Len(b) : b[i] = 0
    THEN CHOOSE i \in 1..Len(b) : b[i] = 0 /\ \A j \in 1..(i - 1) : b[j] # 0
    ELSE 0

\* str::from_utf8 on the bytes the inputs are made of: ASCII is valid, a
\* byte 0xff never is.
Utf8Valid(b) == \A i \in 1..Len(b) : b[i] < 128

\* event_byte_array::to_string: CStr::from_bytes_until_nul(..)?.to_str()?.
to_string(b) ==
    LET n == FirstNul(b)
    IN  IF n = 0 THEN [ok |-> FALSE, s |-> <<>>]
        ELSE IF ~Utf8Valid(SubSeq(b, 1, n - 1)) THEN [ok |-> FALSE, s |-> <<>>]
        ELSE [ok |-> TRUE, s |-> SubSeq(b, 1, n - 1)]

\* event_byte_array::to_string_opt: the empty string is None.
to_string_opt(b) ==
    LET res == to_string(b)
    IN  IF ~res.ok THEN [ok |-> FALSE, s |-> <<"None">>]
        ELSE IF res.s = <<>> THEN [ok |-> TRUE, s |-> <<"None">>]
        ELSE [ok |-> TRUE, s |-> <<"Some", res.s>>]

\* parse_raw_section::<T>: the data must have the size of T.
parse_raw_section(raw, size) == Len(raw.data) = size

\* (u32 at offset off) as i32.
I32At(d, off) ==
    LET top == d[off + 4]
    IN  d[off + 1] + 256 * d[off + 2] + 65536 * d[off + 3]
        + 16777216 * (IF top >= 128 THEN top - 256 ELSE top)

\* raw.comm read by unmarshal_task.
TaskComm(raw) == to_string(SubSeq(raw.data, 9, RawTaskEventLen))

\* unmarshal_task: tgid is the low half of raw.pid, pid its high half.
unmarshal_task(raw) ==
    IF ~parse_raw_section(raw, RawTaskEventLen)
    THEN [ok |-> FALSE, task |-> <<"None">>]
    ELSE LET comm == TaskComm(raw)
         IN  IF ~comm.ok THEN [ok |-> FALSE, task |-> <<"None">>]
             ELSE [ok |-> TRUE,
                   task |-> [tgid |-> I32At(raw.data, 0),
                             pid |-> I32At(raw.data, 4),
                             comm |-> comm.s]]

\* CommonEvent::default().
CommonDefault ==
    [timestamp |-> <<0, 0, 0, 0, 0, 0, 0, 0>>, smp_id |-> <<"None">>,
     task |-> <<"None">>]

\* One iteration of CommonEventFactory::create's loop.
CommonStep(st, raw) ==
    IF ~st.ok THEN st
    ELSE IF raw.header.data_type = COMMON_SECTION_CORE
         THEN IF ~parse_raw_section(raw, RawCommonEventLen)
              THEN [st EXCEPT !.ok = FALSE]
              ELSE [st EXCEPT
                      !.common.timestamp = SubSeq(raw.data, 1, 8),
                      !.common.smp_id = <<"Some", SubSeq(raw.data, 9, 12)>>]
    ELSE IF raw.header.data_type = COMMON_SECTION_TASK
         THEN LET t == unmarshal_task(raw)
              IN  IF ~t.ok THEN [st EXCEPT !.ok = FALSE]
                  ELSE [st EXCEPT !.common.task = <<"Some", t.task>>]
    ELSE [st EXCEPT !.ok = FALSE]

RECURSIVE CommonFold(_, _, _)
CommonFold(st, raws, i) ==
    IF i > Len(raws) THEN st
    ELSE CommonFold(CommonStep(st, raws[i]), raws, i + 1)

\* CommonEventFactory::create.
CommonCreate(raws) ==
    LET st == CommonFold([ok |-> TRUE, common |-> CommonDefault], raws, 1)
    IN  [done |-> TRUE, ok |-> st.ok,
         common |-> IF st.ok THEN st.common ELSE CommonDefault]

\* The task names tried: up to MaxNameLen bytes of NameBytes, then a NUL or
\* none, then one filler byte up to the end.
MaxNameLen == 2
MaxCommonSections == 2
NameBytes == {97, 255}
FillBytes == {0, 99}
CommOf(name, term, fill) ==
    LET head == IF term THEN name \o <<0>> ELSE name
    IN  head \o [i \in 1..(TaskNameLen - Len(head)) |-> fill]
Comms ==
    {CommOf(name, term, fill) :
        name \in SeqsUpTo(NameBytes, MaxNameLen), term \in BOOLEAN,
        fill \in FillBytes}
RawPids == {<<1, 0, 0, 0, 2, 0, 0, 0>>, <<255, 255, 255, 255, 0, 0, 0, 128>>}
RawSectionOf(type, bytes) ==
    [header |-> [owner |-> 1, data_type |-> type, size |-> Len(bytes)],
     data |-> bytes]
CommonSections ==
    {RawSectionOf(COMMON_SECTION_TASK, p \o c) : p \in RawPids, c \in Comms}
    \cup {RawSectionOf(COMMON_SECTION_TASK, <<1, 0, 0, 0, 2, 0, 0, 0, 97, 0>>),
          RawSectionOf(COMMON_SECTION_CORE, <<7, 0, 0, 0, 0, 0, 0, 0, 3, 0, 0, 0>>),
          RawSectionOf(COMMON_SECTION_CORE, <<7, 0, 0, 0, 0, 0, 0, 0, 3, 0, 0, 0, 0, 0, 0, 0>>),
          RawSectionOf(2, <<1>>)}

commonRest ==
    <<earlyVars, fmtVars, pktVars, outVars, symVars, ovsVars, tcpVars>>

InitCommon ==
    /\ EarlyIdle
    /\ cin \in SeqsUpTo(CommonSections, MaxCommonSections)
    /\ cout = <<>>
    /\ FmtIdle /\ PktIdle /\ OutIdle /\ SymIdle /\ OvsIdle /\ TcpIdle

\* The factory is called on the sections of one frame.
CommonCreateCall ==
    /\ cout = <<>>
    /\ cout' = CommonCreate(cin)
    /\ UNCHANGED <<cin, commonRest>>

NextCommon == CommonCreateCall

SpecCommon == InitCommon /\ [][NextCommon]_vars

\* ------------------------------------------ claims on the Common section

\* The comm bytes of a task section of the right size.
CommOfSection(raw) == SubSeq(raw.data, 9, RawTaskEventLen)
IsTaskSection(raw) ==
    /\ raw.header.data_type = COMMON_SECTION_TASK
    /\ Len(raw.data) = RawTaskEventLen
AllNul(b) == \A i \in 1..Len(b) : b[i] = 0

\* C31: a task section whose 64-byte comm holds no NUL makes the Common
\* section fail to decode; a comm made of NULs only decodes to the empty
\* string, and the empty string gives a Common section with no task.
C31_TaskNameDecoding ==
    cout # <<>> =>
        /\ (\E i \in 1..Len(cin) :
                IsTaskSection(cin[i]) /\ FirstNul(CommOfSection(cin[i])) = 0)
            => ~cout.ok
        /\ \A i \in 1..Len(cin) :
            (/\ cout.ok
             /\ IsTaskSection(cin[i])
             /\ AllNul(CommOfSection(cin[i]))
             /\ \A j \in (i + 1)..Len(cin) : ~IsTaskSection(cin[j]))
            => cout.common.task = <<"None">>

\* -------------------------------------------- Event::event_fmt (events.rs)

\* SectionId::_MAX as u8.
MAX_ID == 12

\* What event_fmt writes is a sequence of tokens: the name of a section
\* for that section's own event_fmt, "stack" for the stack trace, and the
\* separators " " and "\n".
Separators == {" ", "\n"}

\* " " and the section when the event holds it.
SpaceThen(ev, id) == IF id \in ev.sections THEN <<" ", id>> ELSE <<>>

\* The {kernel} section, or else the {user} one.
FirstLineProbe(ev) ==
    IF "Kernel" \in ev.sections THEN SpaceThen(ev, "Kernel")
    ELSE SpaceThen(ev, "Userspace")

\* The global tracking section, or else the skb tracking one.
FirstLineTracking_Both(ev) ==
    SpaceThen(ev, "Tracking") \o SpaceThen(ev, "SkbTracking")
FirstLineTracking(ev) ==
    IF "Tracking" \in ev.sections THEN SpaceThen(ev, "Tracking")
    ELSE SpaceThen(ev, "SkbTracking")

\* The separator between each following section.
SepOf(ev) == IF ev.multiline THEN "\n" ELSE " "

\* The stack trace of the kernel section, when it has one.
StackBlock(ev) ==
    IF "Kernel" \in ev.sections /\ ev.stack THEN <<SepOf(ev), "stack">>
    ELSE <<>>

\* The sections of ids from..(MAX_ID - 1) the event holds, in that order.
RECURSIVE OtherSections(_, _)
OtherSections(ev, from) ==
    IF from >= MAX_ID THEN <<>>
    ELSE (IF from_u8(from) \in ev.sections
          THEN <<SepOf(ev), from_u8(from)>> ELSE <<>>)
         \o OtherSections(ev, from + 1)

\* Event::event_fmt; get(&SectionId::Common).unwrap() panics on an event
\* with no Common section.
event_fmt(ev) ==
    IF "Common" \notin ev.sections
    THEN [done |-> TRUE, panic |-> TRUE, out |-> <<>>]
    ELSE [done |-> TRUE, panic |-> FALSE,
          out |-> <<"Common">> \o FirstLineProbe(ev) \o FirstLineTracking(ev)
                  \o SpaceThen(ev, "SkbDrop") \o StackBlock(ev)
                  \o OtherSections(ev, to_u8("Skb"))]

\* The events tried: every set of sections; the kernel section may carry
\* a stack trace.
FmtEvents ==
    {[sections |-> s, stack |-> k, multiline |-> m] :
        s \in SUBSET SectionIds, k \in BOOLEAN, m \in BOOLEAN}

fmtRest ==
    <<earlyVars, commonVars, pktVars, outVars, symVars, ovsVars, tcpVars>>

InitFmt ==
    /\ EarlyIdle
    /\ fev \in {e \in FmtEvents : e.stack => "Kernel" \in e.sections}
    /\ fout = <<>>
    /\ CommonIdle /\ PktIdle /\ OutIdle /\ SymIdle /\ OvsIdle /\ TcpIdle

\* The event is displayed.
EventFmt ==
    /\ fout = <<>>
    /\ fout' = event_fmt(fev)
    /\ UNCHANGED <<fev, fmtRest>>

NextFmt == EventFmt

SpecFmt == InitFmt /\ [][NextFmt]_vars

\* ---------------------------------------------- claims on the display

\* The place of a token in the display order of the claim.
RankOf(tok) ==
    CASE tok = "Common" -> 1
      [] tok \in {"Kernel", "Userspace"} -> 2
      [] tok \in {"Tracking", "SkbTracking"} -> 3
      [] tok = "SkbDrop" -> 4
      [] tok = "stack" -> 5
      [] OTHER -> to_u8(tok)

\* The indexes of fout.out that hold no separator.
Shown == {i \in 1..Len(fout.out) : fout.out[i] \notin Separators}
ShownTokens == {fout.out[i] : i \in Shown}

\* What the claim says is displayed.
ExpectedTokens ==
    {"Common"}
    \cup (IF "Kernel" \in fev.sections THEN {"Kernel"}
          ELSE {"Userspace"} \cap fev.sections)
    \cup (IF "Tracking" \in fev.sections THEN {"Tracking"}
          ELSE {"SkbTracking"} \cap fev.sections)
    \cup ({"SkbDrop"} \cap fev.sections)
    \cup (IF "Kernel" \in fev.sections /\ fev.stack THEN {"stack"} ELSE {})
    \cup {id \in fev.sections : to_u8(id) \in 7..11}

\* C32: an event is displayed as Common, then Kernel or else Userspace,
\* then Tracking or else SkbTracking, then SkbDrop, then the stack trace
\* of the Kernel section, then every section it holds of ids 7 to 11 in
\* increasing id, each once, after a newline (multiline) or a space.
C32_DisplayOrder ==
    (fout # <<>> /\ ~fout.panic) =>
        /\ fout.out[1] = "Common"
        /\ ShownTokens = ExpectedTokens
        /\ \A i \in Shown : \A j \in Shown :
            i < j => RankOf(fout.out[i]) < RankOf(fout.out[j])
        /\ \A i \in Shown :
            /\ i > 1 => fout.out[i - 1] \in Separators
            /\ RankOf(fout.out[i]) >= 5 =>
                fout.out[i - 1] = (IF fev.multiline THEN "\n" ELSE " ")

C32_Witness ==
    /\ fout # <<>>
    /\ ~fout.panic
    /\ fev.multiline
    /\ {"Kernel", "Userspace", "Tracking", "SkbTracking", "SkbDrop", "Skb",
        "Startup"} \subseteq fev.sections
    /\ fev.stack
    /\ Len(fout.out) = 13

\* ------------------------------------- unmarshal_packet (skb/bpf.rs)

SECTION_PACKET == 1

\* The length of RawBpfPacket, event_byte_array!(RawBpfPacket, 255).
RawBpfPacketLen == 255

\* mem::size_of::<RawPacketEvent>(): len, capture_len, packet, fake_eth.
RawPacketEventLen == 4 + 4 + RawBpfPacketLen + 1

\* The least buffer each packet type of pnet_packet takes (its ::new
\* gives None on a shorter one).
EthMin == 14
ArpMin == 28
Ipv4Min == 20
Ipv6Min == 40
TcpMin == 20
UdpMin == 8
IcmpMin == 4

\* EtherTypes::{Ipv4, Arp, Ipv6} and IpNextHeaderProtocols::{Icmp, Tcp,
\* Udp, Icmpv6}.
ETH_IPV4 == 2048
ETH_ARP == 2054
ETH_IPV6 == 34525
PROTO_ICMP == 1
PROTO_TCP == 6
PROTO_UDP == 17
PROTO_ICMPV6 == 58

\* A big-endian u16 of a packet, at offset off.
Be16At(p, off) == 256 * p[off + 1] + p[off + 2]

\* A native-endian u32 at offset off; the sections tried keep it below
\* 2^31.
U32At(d, off) ==
    d[off + 1] + 256 * d[off + 2] + 65536 * d[off + 3]
    + 16777216 * d[off + 4]

Min(a, b) == IF a < b THEN a ELSE b
SatSub(a, b) == IF a > b THEN a - b ELSE 0

\* SkbEvent::default(): no sub-section.
SkbDefault ==
    [packet |-> <<"None">>, eth |-> <<"None">>, arp |-> <<"None">>,
     ip |-> <<"None">>, tcp |-> <<"None">>, udp |-> <<"None">>,
     icmp |-> <<"None">>, icmpv6 |-> <<"None">>]

\* unmarshal_eth on the Ethernet header of p.
unmarshal_eth(p) ==
    <<"Some", [etype |-> Be16At(p, 12), src |-> SubSeq(p, 7, 12),
               dst |-> SubSeq(p, 1, 6)]>>

\* unmarshal_arp: requests and replies only.
unmarshal_arp(a) ==
    IF Be16At(a, 6) \in {1, 2}
    THEN <<"Some", [operation |-> Be16At(a, 6)]>>
    ELSE <<"None">>

\* Ipv4Packet::payload: from the end of the options to the total length,
\* both cut at the end of the buffer.
Ipv4Payload(ip) ==
    LET hl == 4 * (ip[1] % 16)
        start == Min(Ipv4Min + SatSub(hl, Ipv4Min), Len(ip))
        end == Min(start + SatSub(Be16At(ip, 2), hl), Len(ip))
    IN  SubSeq(ip, start + 1, end)

\* Ipv6Packet::payload.
Ipv6Payload(ip) ==
    SubSeq(ip, Ipv6Min + 1, Min(Ipv6Min + Be16At(ip, 4), Len(ip)))

unmarshal_ipv4(ip) ==
    <<"Some", [version |-> 4, protocol |-> ip[10], len |-> Be16At(ip, 2)]>>
unmarshal_ipv6(ip) ==
    <<"Some", [version |-> 6, protocol |-> ip[7], len |-> Be16At(ip, 4)]>>

\* unmarshal_l4: a payload too short for its protocol sets nothing.
unmarshal_l4(ev, protocol, payload) ==
    IF protocol = PROTO_TCP
    THEN IF Len(payload) >= TcpMin
         THEN [ev EXCEPT !.tcp = <<"Some", [sport |-> Be16At(payload, 0),
                                             dport |-> Be16At(payload, 2),
                                             doff |-> payload[13] \div 16]>>]
         ELSE ev
    ELSE IF protocol = PROTO_UDP
    THEN IF Len(payload) >= UdpMin
         THEN [ev EXCEPT !.udp = <<"Some", [sport |-> Be16At(payload, 0),
                                             dport |-> Be16At(payload, 2),
                                             len |-> Be16At(payload, 4)]>>]
         ELSE ev
    ELSE IF protocol = PROTO_ICMP
    THEN IF Len(payload) >= IcmpMin
         THEN [ev EXCEPT !.icmp = <<"Some", [type |-> payload[1],
                                              code |-> payload[2]]>>]
         ELSE ev
    ELSE IF protocol = PROTO_ICMPV6
    THEN IF Len(payload) >= IcmpMin
         THEN [ev EXCEPT !.icmpv6 = <<"Some", [type |-> payload[1],
                                                code |-> payload[2]]>>]
         ELSE ev
    ELSE ev

\* The match on eth.get_ethertype() of unmarshal_packet, p the captured
\* bytes (at least an Ethernet header).
DissectL3(ev, p) ==
    LET etype == Be16At(p, 12)
        pl == SubSeq(p, EthMin + 1, Len(p))
    IN  IF etype = ETH_ARP
        THEN IF Len(pl) >= ArpMin THEN [ev EXCEPT !.arp = unmarshal_arp(pl)]
             ELSE ev
        ELSE IF etype = ETH_IPV4
        THEN IF Len(pl) >= Ipv4Min
             THEN unmarshal_l4([ev EXCEPT !.ip = unmarshal_ipv4(pl)],
                               pl[10], Ipv4Payload(pl))
             ELSE ev
        ELSE IF etype = ETH_IPV6
        THEN IF Len(pl) >= Ipv6Min
             THEN unmarshal_l4([ev EXCEPT !.ip = unmarshal_ipv6(pl)],
                               pl[7], Ipv6Payload(pl))
             ELSE ev
        ELSE IF ev.eth = <<"None">> THEN [ev EXCEPT !.eth = unmarshal_eth(p)]
        ELSE ev

\* unmarshal_packet: res is "ok", "err" (an Err(..) is returned) or
\* "panic" (the slice packet.0[..capture_len] is out of range); event is
\* the SkbEvent as the call leaves it.
unmarshal_packet(ev, raw, report_eth) ==
    IF ~parse_raw_section(raw, RawPacketEventLen)
    THEN [res |-> "err", event |-> ev]
    ELSE
    LET len == U32At(raw.data, 0)
        capture_len == U32At(raw.data, 4)
        fake_eth == raw.data[RawPacketEventLen]
    IN  IF capture_len > RawBpfPacketLen
        THEN [res |-> "panic", event |-> ev]
        ELSE
        LET p == SubSeq(raw.data, 9, 8 + capture_len)
            ev1 == [ev EXCEPT !.packet =
                       <<"Some", [len |-> len, capture_len |-> capture_len,
                                  packet |-> p]>>]
            ev2 == IF report_eth /\ fake_eth = 0
                   THEN [ev1 EXCEPT !.eth = unmarshal_eth(p)] ELSE ev1
        IN  IF Len(p) < EthMin THEN [res |-> "err", event |-> ev1]
            ELSE [res |-> "ok", event |-> DissectL3(ev2, p)]

\* One iteration of SkbEventFactory::create's loop, on the packet
\* sections and the types it does not know.
SkbStep(st, raw, report_eth) ==
    IF st.res # "ok" THEN st
    ELSE IF raw.header.data_type = SECTION_PACKET
         THEN unmarshal_packet(st.event, raw, report_eth)
         ELSE [st EXCEPT !.res = "err"]

RECURSIVE SkbFold(_, _, _, _)
SkbFold(st, raws, report_eth, i) ==
    IF i > Len(raws) THEN st
    ELSE SkbFold(SkbStep(st, raws[i], report_eth), raws, report_eth, i + 1)

\* SkbEventFactory::create: the section on success; last is the SkbEvent
\* the call was building when it ended.
SkbCreate(raws, report_eth) ==
    LET st == SkbFold([res |-> "ok", event |-> SkbDefault], raws,
                      report_eth, 1)
    IN  [done |-> TRUE, res |-> st.res, last |-> st.event,
         section |-> IF st.res = "ok" THEN <<"Some", st.event>>
                     ELSE <<"None">>]

\* The packets tried, built layer by layer.
Zeros(n) == [i \in 1..n |-> 0]
BytesBe16(v) == <<v \div 256, v % 256>>
EthHdr(etype) == Zeros(6) \o <<2, 0, 0, 0, 0, 1>> \o BytesBe16(etype)
Ipv4Hdr(proto, l4len) ==
    <<69, 0>> \o BytesBe16(Ipv4Min + l4len) \o Zeros(4) \o <<64, proto>>
    \o Zeros(2) \o <<10, 0, 0, 1, 10, 0, 0, 2>>
Ipv6Hdr(next, l4len) ==
    <<96, 0, 0, 0>> \o BytesBe16(l4len) \o <<next, 64>> \o Zeros(32)
TcpHdr == <<0, 80, 1, 187>> \o Zeros(8) \o <<80, 16>> \o Zeros(6)
UdpHdr == <<0, 53, 0, 53, 0, 8, 0, 0>>
IcmpHdr == <<8, 0, 0, 0>>
ArpBody(op) == <<0, 1, 8, 0, 6, 4>> \o BytesBe16(op) \o Zeros(20)
\* An ethertype the dissector does not know (LLDP).
ETH_OTHER == 136 * 256 + 204
Packets ==
    {EthHdr(ETH_IPV4) \o Ipv4Hdr(PROTO_TCP, TcpMin) \o TcpHdr,
     EthHdr(ETH_IPV4) \o Ipv4Hdr(PROTO_UDP, UdpMin) \o UdpHdr,
     EthHdr(ETH_IPV4) \o Ipv4Hdr(PROTO_ICMP, IcmpMin) \o IcmpHdr,
     EthHdr(ETH_IPV6) \o Ipv6Hdr(PROTO_TCP, TcpMin) \o TcpHdr,
     EthHdr(ETH_IPV6) \o Ipv6Hdr(PROTO_ICMPV6, IcmpMin) \o IcmpHdr,
     EthHdr(ETH_ARP) \o ArpBody(1),
     EthHdr(ETH_ARP) \o ArpBody(3),
     EthHdr(ETH_OTHER) \o Zeros(4)}
CaptureLens == {0, 13, 14, 18, 33, 34, 41, 42, 53, 54, 74, 255, 256, 300}
BytesLe32(v) == <<v % 256, v \div 256, 0, 0>>
RawPacketOf(p, cap, fake) ==
    RawSectionOf(SECTION_PACKET,
                 BytesLe32(Len(p)) \o BytesLe32(cap) \o p
                 \o Zeros(RawBpfPacketLen - Len(p)) \o <<fake>>)
PacketSections ==
    {RawPacketOf(p, cap, fake) :
        p \in Packets, cap \in CaptureLens, fake \in {0, 1}}
    \cup {RawSectionOf(SECTION_PACKET, Zeros(8)), RawSectionOf(7, <<1>>)}

pktRest ==
    <<earlyVars, commonVars, fmtVars, outVars, symVars, ovsVars, tcpVars>>

InitPkt ==
    /\ EarlyIdle
    /\ pin \in {[sections |-> <<s>>, report_eth |-> r] :
                    s \in PacketSections, r \in BOOLEAN}
    /\ pout = <<>>
    /\ CommonIdle /\ FmtIdle /\ OutIdle /\ SymIdle /\ OvsIdle /\ TcpIdle

\* The factory is called on the Skb sections of one frame.
SkbCreateCall ==
    /\ pout = <<>>
    /\ pout' = SkbCreate(pin.sections, pin.report_eth)
    /\ UNCHANGED <<pin, pktRest>>

NextPkt == SkbCreateCall

SpecPkt == InitPkt /\ [][NextPkt]_vars

\* ------------------------------------------ claims on unmarshal_packet

\* The packet record handed in, when it has the size of RawPacketEvent.
PacketRecord == pin.sections[1]
IsPacketRecord ==
    /\ PacketRecord.header.data_type = SECTION_PACKET
    /\ Len(PacketRecord.data) = RawPacketEventLen
CaptureLenOf == U32At(PacketRecord.data, 4)
Captured == SubSeq(PacketRecord.data, 9, 8 + CaptureLenOf)
EthParses == Len(Captured) >= EthMin
IpParses ==
    /\ EthParses
    /\ \/ Be16At(Captured, 12) = ETH_IPV4 /\ Len(Captured) >= EthMin + Ipv4Min
       \/ Be16At(Captured, 12) = ETH_IPV6 /\ Len(Captured) >= EthMin + Ipv6Min

\* C33: whatever layer of a captured packet fails to parse (Ethernet, IP
\* or ARP, L4), the Skb section is created and holds every sub-section
\* set before the failure: the raw packet, eth when it was parsed and is
\* reported, ip when it was parsed.
C33_DissectionKeepsParsed ==
    (pout # <<>> /\ IsPacketRecord /\ CaptureLenOf <= RawBpfPacketLen) =>
        /\ pout.res = "ok"
        /\ pout.section # <<"None">>
        /\ pout.section[2].packet # <<"None">>
        /\ pout.section[2].packet[2].packet = Captured
        /\ (EthParses /\ pin.report_eth
            /\ PacketRecord.data[RawPacketEventLen] = 0)
            => pout.section[2].eth # <<"None">>
        /\ IpParses => pout.section[2].ip # <<"None">>

\* C39: a packet record of the right size whose capture_len is above 255
\* is refused with an error, the slice packet[..capture_len] is never
\* taken past the 255 bytes of the buffer, and the packet sub-section
\* stored holds capture_len bytes.
C39_CaptureLenBounded ==
    (pout # <<>> /\ IsPacketRecord) =>
        /\ CaptureLenOf > RawBpfPacketLen => pout.res = "err"
        /\ pout.res # "panic"
        /\ pout.last.packet # <<"None">> =>
            /\ pout.last.packet[2].capture_len <= RawBpfPacketLen
            /\ Len(pout.last.packet[2].packet)
                = pout.last.packet[2].capture_len

\* ------------------------------------------- sort --out (sort.rs 72-107)

\* The files of the working directory: "in" holds the events, "hard" is
\* a second name (hard link) of the same file, "ln" a symbolic link to
\* it, "dang" a symbolic link to a name that does not exist, "d" a
\* directory. Paths are sequences of components, relative to the working
\* directory.
NoEnt == [kind |-> "none", inode |-> 0, target |-> <<>>]
FileEnt(n) == [kind |-> "file", inode |-> n, target |-> <<>>]
LinkEnt(t) == [kind |-> "symlink", inode |-> 0, target |-> t]
DirEnt == [kind |-> "dir", inode |-> 0, target |-> <<>>]
Entry(p) ==
    CASE p = <<>> -> DirEnt
      [] p = <<"in">> -> FileEnt(1)
      [] p = <<"hard">> -> FileEnt(1)
      [] p = <<"ln">> -> LinkEnt(<<"in">>)
      [] p = <<"dang">> -> LinkEnt(<<"gone">>)
      [] p = <<"other">> -> FileEnt(2)
      [] p = <<"d">> -> DirEnt
      [] p = <<"d", "f">> -> FileEnt(3)
      [] p = <<"d", "up">> -> LinkEnt(<<"..", "in">>)
      [] OTHER -> NoEnt
Inodes == {1, 2, 3}

\* The path but its last component.
Parent(p) == IF p = <<>> THEN p ELSE SubSeq(p, 1, Len(p) - 1)

\* Path::canonicalize: every component must exist, symbolic links are
\* followed, "." and ".." are resolved against the directories met. at
\* is the directory reached, links the symbolic links still allowed.
MaxLinks == 2
RECURSIVE Resolve(_, _, _)
Resolve(at, rest, links) ==
    IF rest = <<>> THEN [ok |-> TRUE, path |-> at]
    ELSE LET c == Head(rest)
             e == Entry(at \o <<c>>)
         IN  IF Entry(at).kind # "dir" THEN [ok |-> FALSE, path |-> <<>>]
             ELSE IF c = "." THEN Resolve(at, Tail(rest), links)
             ELSE IF c = ".." THEN Resolve(Parent(at), Tail(rest), links)
             ELSE IF e.kind = "none" THEN [ok |-> FALSE, path |-> <<>>]
             ELSE IF e.kind = "symlink"
                  THEN IF links = 0 THEN [ok |-> FALSE, path |-> <<>>]
                       ELSE Resolve(at, e.target \o Tail(rest), links - 1)
             ELSE Resolve(at \o <<c>>, Tail(rest), links)
canonicalize(p) == Resolve(<<>>, p, MaxLinks)

\* PathClean::clean: "." and ".." are resolved on the text of the path.
RECURSIVE clean(_, _)
clean(done, rest) ==
    IF rest = <<>> THEN done
    ELSE IF Head(rest) = "." THEN clean(done, Tail(rest))
    ELSE IF Head(rest) = ".." THEN clean(Parent(done), Tail(rest))
    ELSE clean(done \o <<Head(rest)>>, Tail(rest))

\* The path compared with the input and then opened: the canonical form
\* of --out, or the cleaned path under the working directory when the
\* file does not exist.
OutPath(out) ==
    LET c == canonicalize(out)
    IN  IF c.ok THEN c.path ELSE clean(<<>>, out)

\* out.eq(&self.input.canonicalize()?): a comparison of paths.
SamePath(a, b) == a = b

\* OpenOptions::new().create(true).write(true).truncate(true).open(p):
\* the file p names is emptied; a name that does not exist is created in
\* a directory that does.
OpenTruncate(fs, p) ==
    LET dir == Resolve(<<>>, Parent(p), MaxLinks)
        last == IF dir.ok /\ p # <<>>
                THEN Entry(dir.path \o <<p[Len(p)]>>) ELSE DirEnt
        whole == Resolve(<<>>, p, MaxLinks)
    IN  IF ~dir.ok \/ p = <<>> THEN [ok |-> FALSE, fs |-> fs]
        ELSE IF whole.ok
             THEN IF Entry(whole.path).kind = "file"
                  THEN [ok |-> TRUE,
                        fs |-> [fs EXCEPT
                                 !.data[Entry(whole.path).inode] = <<>>]]
                  ELSE [ok |-> FALSE, fs |-> fs]
        ELSE IF last.kind = "none"
             THEN [ok |-> TRUE, fs |-> [fs EXCEPT !.created = {p}]]
        ELSE IF last.kind = "symlink"
                /\ Resolve(dir.path, Parent(last.target), MaxLinks).ok
             THEN [ok |-> TRUE,
                   fs |-> [fs EXCEPT !.created = {dir.path \o last.target}]]
        ELSE [ok |-> FALSE, fs |-> fs]

\* The paths given as input and as --out.
SortPaths ==
    {<<"in">>, <<".", "in">>, <<"d", "..", "in">>, <<"ln">>, <<"hard">>,
     <<"d", "up">>, <<"other">>, <<"d", "f">>, <<"new">>, <<"d", "new">>,
     <<"dang">>, <<"gone", "..", "in">>, <<"d">>, <<"gone", "new">>}
SortArgs ==
    {[input |-> i, out |-> o] :
        i \in SortPaths,
        o \in {[some |-> FALSE, path |-> <<>>]}
              \cup {[some |-> TRUE, path |-> p] : p \in SortPaths}}
InitialData == [n \in Inodes |-> IF n = 1 THEN <<"events">> ELSE <<"old">>]

outRest ==
    <<earlyVars, commonVars, fmtVars, pktVars, symVars, ovsVars, tcpVars>>

InitOut ==
    /\ EarlyIdle
    /\ sofs \in {[args |-> a, data |-> InitialData, created |-> {}] :
                    a \in SortArgs}
    /\ sout = [pc |-> "start", res |-> "none", out |-> <<>>]
    /\ CommonIdle /\ FmtIdle /\ PktIdle /\ SymIdle /\ OvsIdle /\ TcpIdle

\* Sort::run up to the comparison: the input is opened by
\* FileEventsFactory::new, --out is resolved and compared with the input.
SortCheckOut ==
    /\ sout.pc = "start"
    /\ LET input == canonicalize(sofs.args.input)
           out == OutPath(sofs.args.out.path)
       IN  sout' =
            IF ~input.ok \/ Entry(input.path).kind # "file"
            THEN [pc |-> "done", res |-> "err", out |-> <<>>]
            ELSE IF ~sofs.args.out.some
            THEN [pc |-> "done", res |-> "ok", out |-> <<>>]
            ELSE IF SamePath(out, input.path)
            THEN [pc |-> "done", res |-> "err", out |-> out]
            ELSE [pc |-> "checked", res |-> "none", out |-> out]
    /\ UNCHANGED <<sofs, outRest>>

\* Sort::run, the output file is opened.
SortOpenOut ==
    /\ sout.pc = "checked"
    /\ LET o == OpenTruncate(sofs, sout.out)
       IN  /\ sofs' = o.fs
           /\ sout' = [sout EXCEPT !.pc = "done",
                                   !.res = IF o.ok THEN "ok" ELSE "err"]
    /\ UNCHANGED outRest

NextOut == SortCheckOut \/ SortOpenOut

SpecOut == InitOut /\ [][NextOut]_vars

\* ------------------------------------------------ claims on sort --out

\* The file (inode) a path names, 0 when it names none.
FileOf(p) ==
    LET c == canonicalize(p)
    IN  IF c.ok THEN Entry(c.path).inode ELSE 0
InputFile == FileOf(sofs.args.input)
OutIsInput ==
    /\ sofs.args.out.some
    /\ InputFile # 0
    /\ FileOf(sofs.args.out.path) = InputFile

\* C34: sort never destroys its input: when --out names the same file as
\* the input, run returns an error and the input keeps its content; no
\* file is opened for writing before the comparison was made.
C34_InputNeverDestroyed ==
    /\ sout.pc # "done" => sofs.data = InitialData /\ sofs.created = {}
    /\ (OutIsInput /\ sout.pc = "done") =>
        /\ sout.res = "err"
        /\ sofs.data[InputFile] = InitialData[InputFile]

\* ------------------------------- KernelInspector: symbols (kernel.rs)

\* The value of a hexadecimal digit, -1 for any other character.
HexVal(c) ==
    CASE c = "0" -> 0
      [] c = "1" -> 1
      [] c = "2" -> 2
      [] c = "a" -> 10
      [] c = "f" -> 15
      [] OTHER -> -1

\* u64::from_str_radix(w, 16) on the words tried (two digits at most).
RECURSIVE HexFold(_, _, _)
HexFold(w, i, acc) ==
    IF i > Len(w) THEN [ok |-> TRUE, v |-> acc]
    ELSE IF HexVal(w[i]) < 0 THEN [ok |-> FALSE, v |-> 0]
    ELSE HexFold(w, i + 1, 16 * acc + HexVal(w[i]))
from_str_radix(w) ==
    IF w = <<>> THEN [ok |-> FALSE, v |-> 0] ELSE HexFold(w, 1, 0)

\* w.split(sep).next(): the characters before the first sep.
FirstField(w, sep) ==
    IF \E i \in 1..Len(w) : w[i] = sep
    THEN SubSeq(w, 1,
                (CHOOSE i \in 1..Len(w) :
                    w[i] = sep /\ \A j \in 1..(i - 1) : w[j] # sep) - 1)
    ELSE w

\* BiBTreeMap::insert: the pair takes the place of every pair that has
\* its address or its name.
BiInsert(symbols, addr, name) ==
    {s \in symbols : s.addr # addr /\ s.name # name}
    \cup {[addr |-> addr, name |-> name]}

\* One line of the symbols file, the fields it splits into on ' '.
SymbolsStep(st, fields) ==
    IF ~st.ok THEN st
    ELSE IF Len(fields) < 3 THEN [st EXCEPT !.ok = FALSE]
    ELSE LET addr == from_str_radix(fields[1])
         IN  IF ~addr.ok THEN [st EXCEPT !.ok = FALSE]
             ELSE [st EXCEPT !.symbols =
                      BiInsert(@, addr.v, FirstField(fields[3], "\t"))]

\* The loop of KernelInspector::new over the lines, the last one first.
RECURSIVE SymbolsFold(_, _, _)
SymbolsFold(st, lines, i) ==
    IF i < 1 THEN st
    ELSE SymbolsFold(SymbolsStep(st, lines[i]), lines, i - 1)

\* KernelInspector::new, its symbols.
KernelInspectorNew(lines) ==
    LET st == SymbolsFold([ok |-> TRUE, symbols |-> {}], lines, Len(lines))
    IN  [ok |-> st.ok, symbols |-> IF st.ok THEN st.symbols ELSE {},
         query |-> <<>>]

NoAddr == 0 - 1
NoName == <<>>

\* KernelInspector::get_symbol_name.
get_symbol_name(symbols, addr) ==
    IF \E s \in symbols : s.addr = addr
    THEN [ok |-> TRUE, name |-> (CHOOSE s \in symbols : s.addr = addr).name]
    ELSE [ok |-> FALSE, name |-> NoName]

\* KernelInspector::get_symbol_addr.
get_symbol_addr(symbols, name) ==
    IF \E s \in symbols : s.name = name
    THEN [ok |-> TRUE, addr |-> (CHOOSE s \in symbols : s.name = name).addr]
    ELSE [ok |-> FALSE, addr |-> NoAddr]

\* The range (Unbounded, Included(&target)) of find_nearest_symbol.
InLeftRange_Excluded(addr, target) == addr < target
InLeftRange(addr, target) == addr <= target

\* KernelInspector::find_nearest_symbol: the last address of the range.
find_nearest_symbol(symbols, target) ==
    LET range == {s.addr : s \in {x \in symbols : InLeftRange(x.addr, target)}}
    IN  IF range = {} THEN [ok |-> FALSE, addr |-> NoAddr]
        ELSE [ok |-> TRUE,
              addr |-> CHOOSE a \in range : \A b \in range : b <= a]

\* KernelInspector::get_name_offt_from_addr_near; u64::checked_sub fails
\* below 0.
get_name_offt_from_addr_near(symbols, addr) ==
    LET sym_addr == find_nearest_symbol(symbols, addr)
        name == get_symbol_name(symbols, sym_addr.addr)
    IN  IF ~sym_addr.ok \/ ~name.ok \/ addr < sym_addr.addr
        THEN [ok |-> FALSE, name |-> NoName, offt |-> 0]
        ELSE [ok |-> TRUE, name |-> name.name, offt |-> addr - sym_addr.addr]

\* The symbols files tried: up to MaxSymLines lines made of an address
\* word, a type and a name, which may be followed by a tabulation and a
\* module; one line has two fields only.
MaxSymLines == 3
MaxQueryAddr == 18
AddrWords == {<<"2">>, <<"a">>, <<"1", "0">>, <<"0", "a">>, <<"x">>}
NameWords == {<<"f">>, <<"g">>, <<"f", "\t", "m">>}
SymLines ==
    {<<a, <<"t">>, n>> : a \in AddrWords, n \in NameWords}
    \cup {<<<<"2">>, <<"t">>>>}

symRest ==
    <<earlyVars, commonVars, fmtVars, pktVars, outVars, ovsVars, tcpVars>>

InitSym ==
    /\ EarlyIdle
    /\ kfile \in SeqsUpTo(SymLines, MaxSymLines)
    /\ ktab = <<>>
    /\ CommonIdle /\ FmtIdle /\ PktIdle /\ OutIdle /\ OvsIdle /\ TcpIdle

\* KernelInspector::new reads the symbols file.
InspectorNew ==
    /\ ktab = <<>>
    /\ ktab' = KernelInspectorNew(kfile)
    /\ UNCHANGED <<kfile, symRest>>

\* An address is looked up (get_name_offt_from_addr_near).
NameOfftQuery ==
    /\ ktab # <<>>
    /\ ktab.ok
    /\ ktab.query = <<>>
    /\ \E t \in 0..MaxQueryAddr :
        ktab' = [ktab EXCEPT !.query =
                    <<[target |-> t,
                       res |-> get_name_offt_from_addr_near(ktab.symbols, t)]>>]
    /\ UNCHANGED <<kfile, symRest>>

NextSym == InspectorNew \/ NameOfftQuery

SpecSym == InitSym /\ [][NextSym]_vars

\* --------------------------------------- claims on the symbol lookup

\* C35: on the table built from the symbols file, the name of the address
\* of every name of the table is that name; find_nearest_symbol gives the
\* greatest address not above its target and fails when there is none;
\* get_name_offt_from_addr_near gives the name at that address and the
\* distance from it, never below 0.
C35_SymbolLookup ==
    (ktab # <<>> /\ ktab.ok) =>
        LET syms == ktab.symbols
            addrs == {s.addr : s \in syms}
        IN  /\ \A s \in syms :
                /\ get_symbol_addr(syms, s.name).ok
                /\ get_symbol_name(syms, get_symbol_addr(syms, s.name).addr)
                    = [ok |-> TRUE, name |-> s.name]
            /\ \A t \in 0..MaxQueryAddr :
                LET near == find_nearest_symbol(syms, t)
                    below == {a \in addrs : a <= t}
                IN  /\ near.ok <=> below # {}
                    /\ near.ok =>
                        /\ near.addr \in below
                        /\ \A a \in below : a <= near.addr
            /\ ktab.query # <<>> =>
                LET q == ktab.query[1]
                    below == {a \in addrs : a <= q.target}
                IN  /\ q.res.ok <=> below # {}
                    /\ q.res.ok =>
                        /\ q.res.offt >= 0
                        /\ q.target - q.res.offt \in below
                        /\ \A a \in below : a <= q.target - q.res.offt
                        /\ [addr |-> q.target - q.res.offt,
                            name |-> q.res.name] \in syms

C35_Witness ==
    /\ ktab # <<>>
    /\ ktab.ok
    /\ Cardinality(ktab.symbols) = 2
    /\ ktab.query # <<>>
    /\ ktab.query[1].res.ok
    /\ ktab.query[1].res.offt > 0
    /\ \E s \in ktab.symbols : s.addr > ktab.query[1].target

\* The lines of the file that carry an address, in the order of the file.
LineAddr(l) == from_str_radix(l[1]).v
LineName(l) == FirstField(l[3], "\t")
FirstLineOf(addr) ==
    CHOOSE i \in 1..Len(kfile) :
        /\ LineAddr(kfile[i]) = addr
        /\ \A j \in 1..(i - 1) : LineAddr(kfile[j]) # addr

\* C37: once KernelInspector::new has read the symbols file, every
\* address of a line of the file has a name, the one of the first line
\* that carries the address, also when a name is given at several
\* addresses.
C37_FirstLineKept ==
    (ktab # <<>> /\ ktab.ok) =>
        \A i \in 1..Len(kfile) :
            get_symbol_name(ktab.symbols, LineAddr(kfile[i]))
                = [ok |-> TRUE,
                   name |-> LineName(kfile[FirstLineOf(LineAddr(kfile[i]))])]

\* --------------------- OvsCollector::can_run (ovs.rs, kernel.rs)

\* Lines of the kernel configuration and of the modules file are
\* sequences of pieces of text; "CONFIG_", "# ", "=", " " and "\"" are
\* pieces of their own.
StartsWith(l, w) == Len(l) >= Len(w) /\ SubSeq(l, 1, Len(w)) = w

\* l.split_once(sep): the pieces before and after the first sep.
SplitOncePiece(l, sep) ==
    IF \E i \in 1..Len(l) : l[i] = sep
    THEN LET i == CHOOSE k \in 1..Len(l) :
                    l[k] = sep /\ \A j \in 1..(k - 1) : l[j] # sep
         IN  [ok |-> TRUE, left |-> SubSeq(l, 1, i - 1),
              right |-> SubSeq(l, i + 1, Len(l))]
    ELSE [ok |-> FALSE, left |-> <<>>, right |-> <<>>]

\* val.trim_start_matches('"').trim_end_matches('"').
RECURSIVE TrimStart(_)
TrimStart(v) ==
    IF v # <<>> /\ Head(v) = "\"" THEN TrimStart(Tail(v)) ELSE v
RECURSIVE TrimEnd(_)
TrimEnd(v) ==
    IF v # <<>> /\ v[Len(v)] = "\"" THEN TrimEnd(SubSeq(v, 1, Len(v) - 1))
    ELSE v

\* map.insert(key, val) on a map kept as a set of pairs.
MapInsert(map, key, val) ==
    {e \in map : e.key # key} \cup {[key |-> key, val |-> val]}

\* The closure parse_kconfig of parse_kernel_config, one line.
KconfigStep(st, l) ==
    IF ~st.ok THEN st
    ELSE IF StartsWith(l, <<"CONFIG_">>)
         THEN LET kv == SplitOncePiece(l, "=")
              IN  IF ~kv.ok THEN [st EXCEPT !.ok = FALSE]
                  ELSE [st EXCEPT !.map =
                          MapInsert(@, kv.left, TrimEnd(TrimStart(kv.right)))]
    ELSE IF StartsWith(l, <<"# ", "CONFIG_">>)
         THEN LET kv == SplitOncePiece(Tail(l), " ")
              IN  IF ~kv.ok THEN [st EXCEPT !.ok = FALSE]
                  ELSE [st EXCEPT !.map = MapInsert(@, kv.left, <<"n">>)]
    ELSE st

RECURSIVE KconfigFold(_, _, _)
KconfigFold(st, lines, i) ==
    IF i > Len(lines) THEN st
    ELSE KconfigFold(KconfigStep(st, lines[i]), lines, i + 1)

\* parse_kernel_config: no map when no configuration file can be read,
\* an error when a line cannot be parsed.
parse_kernel_config(file) ==
    IF ~file.some THEN [ok |-> TRUE, some |-> FALSE, map |-> {}]
    ELSE LET st == KconfigFold([ok |-> TRUE, map |-> {}], file.lines, 1)
         IN  [ok |-> st.ok, some |-> st.ok, map |-> st.map]

\* file_to_hashset: the first field of every line; None when the file
\* cannot be read.
file_to_hashset(file) ==
    [some |-> file.some,
     set |-> IF file.some
             THEN {FirstField(file.lines[i], " ") : i \in 1..Len(file.lines)}
             ELSE {}]

\* get_config_option: an error with no configuration, else the value of
\* the option if it has one.
get_config_option(config, option) ==
    IF ~config.some THEN [ok |-> FALSE, val |-> <<"None">>]
    ELSE IF \E e \in config.map : e.key = option
    THEN [ok |-> TRUE,
          val |-> <<"Some", (CHOOSE e \in config.map : e.key = option).val>>]
    ELSE [ok |-> TRUE, val |-> <<"None">>]

\* is_module_loaded.
is_module_loaded(modules, module) ==
    IF modules.some THEN <<"Some", module \in modules.set>> ELSE <<"None">>

CONFIG_OPENVSWITCH == <<"CONFIG_", "OPENVSWITCH">>
OpenvswitchModule == <<"openvswitch">>

\* The value OvsCollector::can_run compares the option with.
BuiltInValue == <<"Some", <<"=", "y">>>>

\* OvsCollector::can_run on the inspector built from the two files.
OvsCanRun(files) ==
    LET config == parse_kernel_config(files.config)
        modules == file_to_hashset(files.modules)
        option == get_config_option(config, CONFIG_OPENVSWITCH)
    IN  IF ~config.ok THEN "no_inspector"
        ELSE IF ~option.ok THEN "no_config"
        ELSE IF option.val # BuiltInValue
                /\ is_module_loaded(modules, OpenvswitchModule)
                    = <<"Some", FALSE>>
        THEN "not_loaded"
        ELSE "ok"

\* The files tried.
MaxConfigLines == 2
MaxModuleLines == 2
ConfigLines ==
    {<<"CONFIG_", "OPENVSWITCH", "=", "y">>,
     <<"CONFIG_", "OPENVSWITCH", "=", "m">>,
     <<"CONFIG_", "OPENVSWITCH", "=", "\"", "y", "\"">>,
     <<"CONFIG_", "OPENVSWITCH", "=", "=", "y">>,
     <<"# ", "CONFIG_", "OPENVSWITCH", " ", "is not set">>,
     <<"CONFIG_", "VETH", "=", "m">>,
     <<"CONFIG_", "OPENVSWITCH">>,
     <<"#">>}
ModuleLines ==
    {<<"openvswitch", " ", "16384", " ", "0">>, <<"veth", " ", "4096">>,
     <<"openvswitch_extra", " ", "1">>}
NoFile == [some |-> FALSE, lines |-> <<>>]
FilesOf(L, n) == {NoFile} \cup {[some |-> TRUE, lines |-> l] : l \in SeqsUpTo(L, n)}

ovsRest ==
    <<earlyVars, commonVars, fmtVars, pktVars, outVars, symVars, tcpVars>>

InitOvs ==
    /\ EarlyIdle
    /\ oin \in {[config |-> c, modules |-> m] :
                    c \in FilesOf(ConfigLines, MaxConfigLines),
                    m \in FilesOf(ModuleLines, MaxModuleLines)}
    /\ oout = <<>>
    /\ CommonIdle /\ FmtIdle /\ PktIdle /\ OutIdle /\ SymIdle /\ TcpIdle

\* The collector is asked whether it can run.
OvsCanRunCall ==
    /\ oout = <<>>
    /\ oout' = <<OvsCanRun(oin)>>
    /\ UNCHANGED <<oin, ovsRest>>

NextOvs == OvsCanRunCall

SpecOvs == InitOvs /\ [][NextOvs]_vars

\* ------------------------------------- claims on OvsCollector::can_run

\* The configuration read says CONFIG_OPENVSWITCH=y: the last line that
\* sets the option gives it the value y.
OptionIsY ==
    LET config == parse_kernel_config(oin.config)
    IN  /\ config.ok
        /\ config.some
        /\ [key |-> CONFIG_OPENVSWITCH, val |-> <<"y">>] \in config.map
ModulesKnown == oin.modules.some
OpenvswitchListed ==
    \E i \in 1..Len(oin.modules.lines) :
        oin.modules.lines[i][1] = "openvswitch"

\* C36: can_run succeeds whenever the configuration has
\* CONFIG_OPENVSWITCH=y, whatever the modules file says; it fails with
\* 'not loaded' only when the option is not y and the modules are known
\* and openvswitch is not one of them; with no modules file it does not
\* fail for that reason.
C36_OvsPrerequisite ==
    oout # <<>> =>
        /\ OptionIsY => oout[1] = "ok"
        /\ oout[1] = "not_loaded" =>
            ~OptionIsY /\ ModulesKnown /\ ~OpenvswitchListed
        /\ ~ModulesKnown => oout[1] # "not_loaded"

\* ------------------------------------ claims on the loop over sections

\* The raw sections collected so far, of every owner.
CollectedSections ==
    UNION {{raw_sections[o][i] : i \in 1..Len(raw_sections[o])} :
              o \in DOMAIN raw_sections}

\* Nothing was read outside the buffer, and every section collected
\* borrows its bytes from [2, L + 2), past its own header.
SectionsInsideFrame ==
    pc \in {"loop", "dispatch"} =>
        /\ raw_event_size <= Len(data)
        /\ cursor <= Len(data)
        /\ \A sec \in CollectedSections :
            /\ sec.off >= SizeFieldLen + HeaderSize
            /\ sec.off + Len(sec.data) <= raw_event_size
            /\ Len(sec.data) = sec.header.size
            /\ sec.data = SubSeq(data, sec.off + 1, sec.off + Len(sec.data))

\* An iteration of the loop either leaves it or moves the cursor on by
\* the size of a header at least.
CursorMovesOn ==
    (pc = "loop" /\ pc' = "loop") => cursor' >= cursor + HeaderSize

\* C38: on every buffer the loop over the sections ends, the cursor
\* growing by 4 at least at each iteration and never leaving the buffer;
\* nothing is read outside the buffer, and the payload of every section
\* accepted lies within the bytes [2, L + 2) of the frame, also when the
\* buffer is longer than the frame.
C38_LoopStaysInFrame == []SectionsInsideFrame /\ [][CursorMovesOn]_vars

C38_Witness ==
    /\ pc = "dispatch"
    /\ Len(data) > raw_event_size
    /\ cursor > raw_event_size
    /\ CollectedSections # {}

\* ------------------------- SkbEvent::event_fmt, the TCP part (event.rs)

\* The widths of the integers: u16 values are below U16Mod; a u32 is kept
\* as its two 16-bit halves [hi, lo].
U16Mod == 256 * 256

\* a - b on u16: the wrapped value and whether the true result is below 0.
SubU16(a, b) ==
    [v |-> (a - b + U16Mod) % U16Mod, overflow |-> a < b]

\* a + b on u32, b below U16Mod: the wrapped value and whether the true
\* result is above 2^32 - 1.
AddU32(a, b) ==
    LET lo == a.lo + b
        hi == a.hi + (lo \div U16Mod)
    IN  [v |-> [hi |-> hi % U16Mod, lo |-> lo % U16Mod],
         overflow |-> hi >= U16Mod]

\* The local len of event_fmt when the TCP part is reached: 0, or ip.len
\* when the event has an IP sub-section.
LenBeforeTcp(ev) == IF ev.ip = <<"None">> THEN 0 ELSE ev.ip[2].len

\* The TCP part of SkbEvent::event_fmt (flags, seq, ack, win). An
\* arithmetic overflow panics in a build with overflow checks and wraps
\* in a build without.
TcpFmt(ev, checks) ==
    LET tcp == ev.tcp[2]
        len == SubU16(LenBeforeTcp(ev), tcp.doff)
        end == AddU32(tcp.seq, len.v)
        ack == IF (tcp.flags \div 16) % 2 = 1
               THEN <<"ack", tcp.ack_seq>> ELSE <<>>
    IN  IF len.overflow /\ checks
        THEN [res |-> "panic", sub |-> TRUE, add |-> FALSE, out |-> <<>>]
        ELSE IF len.v > 0
        THEN IF end.overflow /\ checks
             THEN [res |-> "panic", sub |-> len.overflow, add |-> TRUE,
                   out |-> <<>>]
             ELSE [res |-> "ok", sub |-> len.overflow, add |-> end.overflow,
                   out |-> <<"seq", tcp.seq, end.v>> \o ack
                           \o <<"win", tcp.window>>]
        ELSE [res |-> "ok", sub |-> FALSE, add |-> FALSE,
              out |-> <<"seq", tcp.seq>> \o ack \o <<"win", tcp.window>>]

\* The events tried.
IpLens == {0, 3, 20, 40, 65535}
TcpDoffs == {0, 5, 15}
TcpSeqs ==
    {[hi |-> 0, lo |-> 0], [hi |-> 0, lo |-> 1000], [hi |-> 32768, lo |-> 0],
     [hi |-> 65535, lo |-> 65500], [hi |-> 65535, lo |-> 65535]}
TcpFlags == {0, 16, 18}
TcpEvents ==
    {[ip |-> i,
      tcp |-> <<"Some", [doff |-> d, seq |-> s, ack_seq |-> s, flags |-> fl,
                         window |-> 512]>>] :
        i \in {<<"None">>} \cup {<<"Some", [len |-> l]>> : l \in IpLens},
        d \in TcpDoffs, s \in TcpSeqs, fl \in TcpFlags}

tcpRest ==
    <<earlyVars, commonVars, fmtVars, pktVars, outVars, symVars, ovsVars>>

InitTcp ==
    /\ EarlyIdle
    /\ tin \in TcpEvents
    /\ tout = <<>>
    /\ CommonIdle /\ FmtIdle /\ PktIdle /\ OutIdle /\ SymIdle /\ OvsIdle

\* The event is displayed, by a build with or without overflow checks.
SkbEventFmt ==
    /\ tout = <<>>
    /\ \E checks \in BOOLEAN : tout' = <<TcpFmt(tin, checks)>>
    /\ UNCHANGED <<tin, tcpRest>>

NextTcp == SkbEventFmt

SpecTcp == InitTcp /\ [][NextTcp]_vars

\* -------------------------------------- claims on the TCP part of the
\* display

\* C40: displaying an SkbEvent that has a TCP sub-section never
\* overflows, whatever its fields (no IP sub-section, an IP length below
\* the TCP data offset): ip.len - tcp.doff is not below 0 on u16 and
\* tcp.seq + len is not above 2^32 - 1 on u32.
C40_TcpFmtNoOverflow ==
    tout # <<>> =>
        /\ tout[1].res = "ok"
        /\ ~tout[1].sub
        /\ ~tout[1].add

====
